---- MODULE Spec2Model ----
(***************************************************************************)
(* State-machine model of GitHubSample::HelperForKeyboardReaderIOKit       *)
(* (HelperForKeyboardReaderIOKit.cpp / .h): one keyboard-reading session   *)
(* on top of the IOKit HID driver layer.                                   *)
(*                                                                         *)
(* The session's fields (m_pimpl, m_keys, m_errorLoggerFunctor,            *)
(* m_queueEnabled) are state variables; the driver layer is a scripted     *)
(* environment: every driver call returns a status drawn from the script   *)
(* handed to the operation, and the driver's own bookkeeping (reference to *)
(* the device, plug-in object, device interface, queue, pending events,    *)
(* current element values) is kept in the variables drv, hidQueue and      *)
(* pressed.  opCalls, errorLog, retrieved, yielded, ret and lastOp record  *)
(* what the operation in progress (or the last one) did.                   *)
(*                                                                         *)
(* Spec and LiveSpec drive the session through its public operations.      *)
(* StagesSpec applies the private stage functions PopulateVectorOfKeyInfo  *)
(* and FindKeypressCookies to the table on their own, the scan one         *)
(* descriptor at a time (elements, elementIndex, success).  The variable   *)
(* twin follows the session that differs only in having, or not having,    *)
(* an error logger.                                                        *)
(*                                                                         *)
(* Left out: the per-key name string, the timestamp/longValue fields of an *)
(* event, and the device property strings gathered by                      *)
(* GetKeyboardProperties/StoreOneProperty (they only lengthen the text of  *)
(* the message built by LogInitializationError).                           *)
(***************************************************************************)
EXTENDS Integers, Sequences, FiniteSets, TLC

(***************************************************************************)
(* Bounds of the model.                                                    *)
(***************************************************************************)
\* longest tail of extra element descriptors appended to a driver report
MaxTail == 1
\* most events pending in the queue at one time in the behaviours explored:
\* Next lets the keyboard and the driver add an event only below it
MaxPending == 2
\* most events of one drain call that the records retrieved and yielded
\* keep: more than can be pending, so that a full record shows an event
\* that arrived while the loop was running
MaxTrace == 3

(***************************************************************************)
(* Program constants.                                                      *)
(***************************************************************************)
\* kHIDPage_KeyboardOrKeypad (IOHIDUsageTables.h), compared at line 804
kHIDPage_KeyboardOrKeypad == 7
\* kIOHIDElementTypeInput_Button, compared at line 395
kIOHIDElementTypeInput_Button == 2
\* kIOHIDElementTypeInput_Misc, the enum quoted at line 374
kIOHIDElementTypeInput_Misc == 1
\* "score > 40" at line 851
ScoreThreshold == 40
\* second argument of create(), line 880
QueueDepth == 200
\* usage ids polled by DebugCheckErrorKeys, lines 288, 301, 314, 327
kHIDUsage_KeyboardErrorRollOver == 1
kHIDUsage_KeyboardPOSTFail == 2
kHIDUsage_KeyboardErrorUndefined == 3
kHIDUsage_KeyboardPower == 102
\* the last usage id pushed by PopulateVectorOfKeyInfo, line 1120
kHIDUsage_KeyboardExSel == 164

kIOReturnSuccess == "kIOReturnSuccess"
kIOReturnError == "kIOReturnError"
kIOReturnUnderrun == "kIOReturnUnderrun"

(***************************************************************************)
(* Small helpers.                                                          *)
(***************************************************************************)
Size(v) == Cardinality(DOMAIN v)

\* F applied to the value of v, with v evaluated once
Bind(v, F(_)) == CHOOSE y \in {F(x) : x \in {v}} : TRUE

\* position of the first entry of sequence s satisfying fn = name, 0 if none
FirstCall(s, name) ==
    IF \E i \in 1..Len(s) : s[i].fn = name
    THEN CHOOSE i \in 1..Len(s) : s[i].fn = name /\ \A j \in 1..(i-1) : s[j].fn # name
    ELSE 0

Made(s, name) == FirstCall(s, name) # 0

\* position of the first successful call of that name, 0 if none
FirstOk(s, name) ==
    IF \E i \in 1..Len(s) : s[i].fn = name /\ s[i].ok
    THEN CHOOSE i \in 1..Len(s) :
            /\ s[i].fn = name /\ s[i].ok
            /\ \A j \in 1..(i-1) : ~(s[j].fn = name /\ s[j].ok)
    ELSE 0

\* one recorded driver call
Call(fn, arg, ok) == [fn |-> fn, arg |-> arg, ok |-> ok]

(***************************************************************************)
(* PerKeyData and the key table (m_keys).  The vector is modelled as a     *)
(* function on 0..size-1 so that m_keys[usage] reads as in the source.     *)
(***************************************************************************)
\* PerKeyData::PerKeyData; the fourth argument defaults to false
PerKeyData(usageId, cookie, ignore) ==
    [usbOfficialUsageID |-> usageId,
     macCookieValue |-> cookie,
     mustBeIgnoredByOurApplication |-> ignore]

\* usage ids pushed with FORCE_APPLICATION_TO_IGNORE_THIS_KEY:
\* lines 957-959, 1014-1055, 1058-1090
ForcedIgnoreIds == (1..3) \cup (58..99) \cup (102..134)

\* PerKeyData::PushOneItem for the entry of index u: line 954 pushes the
\* placeholder (usage id 0, ignore left at its default), line 956 + u pushes
\* usage id u
PushOneItem(u) == PerKeyData(u, 0, u \in ForcedIgnoreIds)

EmptyKeys == <<>>

\* a vector with one entry for each of the 250 reserved places
PopulatedKeysReserved == [u \in 0..249 |-> PushOneItem(u)]

\* a vector that starts with the first real key, without the placeholder
PopulatedKeysWithoutPlaceholder ==
    [u \in 0..(kHIDUsage_KeyboardExSel - 1) |-> PushOneItem(u + 1)]

\* the vector after the pushes of lines 954-1120
PopulatedKeys == [u \in 0..kHIDUsage_KeyboardExSel |-> PushOneItem(u)]

\* a population that starts over whatever the table holds
PopulateVectorOfKeyInfoAgain(keys, ndbg) ==
    [ok |-> TRUE, keys |-> PopulatedKeys, asserted |-> FALSE]

\* a population that reports success and leaves the pushes for later
PopulateVectorOfKeyInfoDeferred(keys, ndbg) ==
    [ok |-> TRUE, keys |-> keys, asserted |-> FALSE]

\* PopulateVectorOfKeyInfo: [ok, keys, asserted]
PopulateVectorOfKeyInfo(keys, ndbg) ==
    IF Size(keys) # 0
    THEN [ok |-> FALSE, keys |-> keys, asserted |-> ~ndbg]
    ELSE [ok |-> TRUE, keys |-> PopulatedKeys, asserted |-> FALSE]

\* a test that looks at the handle only
CookieOnly(k) == k.macCookieValue # 0

\* the test made at lines 252, 835 and 917
CookieAndNotIgnored(k) ==
    k.macCookieValue # 0 /\ k.mustBeIgnoredByOurApplication = FALSE

\* indices of the keys an iteration over m_keys acts on
ActiveIndices(keys) == {i \in DOMAIN keys : CookieAndNotIgnored(keys[i])}

\* the calls fn(cookie of key i), for the indices i of S in ascending
\* order, as an iteration over m_keys makes them; a call is refused when
\* its cookie is in failSet
CallsOver(fn, keys, S, failSet) ==
    Bind(SelectSeq([k \in 1..Size(keys) |-> k - 1], LAMBDA i : i \in S),
         LAMBDA visited :
            [k \in 1..Len(visited) |->
                Call(fn, keys[visited[k]].macCookieValue,
                     keys[visited[k]].macCookieValue \notin failSet)])

(***************************************************************************)
(* Element descriptors reported by copyMatchingElements.  A field of a     *)
(* descriptor is absent, present with a non-numeric value, or a number.    *)
(***************************************************************************)
Num(n) == [present |-> TRUE, isNumber |-> TRUE, value |-> n]
Absent == [present |-> FALSE, isNumber |-> FALSE, value |-> 0]
NonNumber == [present |-> TRUE, isNumber |-> FALSE, value |-> 0]

Descriptor(cookie, usage, usagePage) ==
    [cookie |-> cookie, usage |-> usage, usagePage |-> usagePage]

\* the three-part test of lines 764-766, 778-780, 792-794
FieldUnusable(f) == f.present = FALSE \/ f.isNumber = FALSE

\* a cast that keeps only the low byte of the number
CookieCastToByte(n) == n % 256

\* (IOHIDElementCookie)temp_number_reused, line 774: the cast keeps the value
\* of every number a cookie can hold; the reports of this model stay in
\* that range
CookieCast(n) == n

\* a binding that replaces the handle a key already holds
BindDescriptorOverwrites(st, cookie, usage, usagePage, ndbg) ==
    IF usagePage # kHIDPage_KeyboardOrKeypad THEN st
    ELSE IF usage >= Size(st.keys) THEN st
    ELSE IF usage < 0 THEN st
    ELSE [st EXCEPT !.keys[usage].macCookieValue = cookie,
                    !.asserted = (st.keys[usage].macCookieValue # 0 /\ ~ndbg)]

\* a binding that reports a usage past the end of the table as an error
BindDescriptorRejectsBeyond(st, cookie, usage, usagePage, ndbg) ==
    IF usagePage # kHIDPage_KeyboardOrKeypad THEN st
    ELSE IF usage >= Size(st.keys)
         THEN [st EXCEPT !.msgs = Append(@, "A usage id past the key table?")]
    ELSE IF usage < 0 THEN st
    ELSE IF st.keys[usage].macCookieValue # 0
         THEN [st EXCEPT !.asserted = ~ndbg]
         ELSE [st EXCEPT !.keys[usage].macCookieValue = cookie]

\* a binding that takes a second descriptor for a key as a reason to unbind it
BindDescriptorClearsOnRepeat(st, cookie, usage, usagePage, ndbg) ==
    IF usagePage # kHIDPage_KeyboardOrKeypad THEN st
    ELSE IF usage >= Size(st.keys) THEN st
    ELSE IF usage < 0 THEN st
    ELSE IF st.keys[usage].macCookieValue # 0
         THEN [st EXCEPT !.keys[usage].macCookieValue = 0,
                         !.asserted = ~ndbg]
         ELSE [st EXCEPT !.keys[usage].macCookieValue = cookie]

\* lines 804-827: what one well-formed descriptor does to the table
BindDescriptor(st, cookie, usage, usagePage, ndbg) ==
    IF usagePage # kHIDPage_KeyboardOrKeypad THEN st
    ELSE IF usage >= Size(st.keys) THEN st
    ELSE IF usage < 0 THEN st
    ELSE IF st.keys[usage].macCookieValue # 0
         THEN [st EXCEPT !.asserted = ~ndbg]
         ELSE [st EXCEPT !.keys[usage].macCookieValue = cookie]

\* lines 750-827: the body of the for loop, for one descriptor
ScanDescriptor(st, element, ndbg) ==
    IF FieldUnusable(element.cookie) THEN st
    ELSE IF FieldUnusable(element.usage)
         THEN [st EXCEPT !.msgs = Append(@, "A cookie without a usage id?")]
    ELSE IF FieldUnusable(element.usagePage)
         THEN [st EXCEPT !.msgs = Append(@, "A cookie without a usage page?")]
    ELSE BindDescriptor(st, CookieCast(element.cookie.value),
                        element.usage.value, element.usagePage.value, ndbg)

\* lines 748-828: the for loop over the descriptors lo..hi of the report,
\* in order (split in halves to keep the evaluation shallow); a failed
\* assert ends the process, so nothing after it is scanned
RECURSIVE ScanElements(_, _, _, _, _)
ScanElements(st, elements, lo, hi, ndbg) ==
    IF lo > hi \/ st.asserted THEN st
    ELSE IF lo = hi THEN ScanDescriptor(st, elements[lo], ndbg)
    ELSE LET mid == (lo + hi) \div 2
         IN Bind(ScanElements(st, elements, lo, mid, ndbg),
                 LAMBDA half : ScanElements(half, elements, mid + 1, hi, ndbg))

\* lines 831-842
Score(keys) == Cardinality({i \in DOMAIN keys : CookieAndNotIgnored(keys[i])})

\* a result that accepts a score equal to the threshold
ScoreReachesThreshold(score) == score >= ScoreThreshold

\* line 851
ScoreSucceeds(score) == score > ScoreThreshold

\* FindKeypressCookies: [ok, keys, msgs, asserted, crashed].
\* copyOk is the status of copyMatchingElements; when it fails, `elements'
\* was never written and line 846 reads it uninitialised: wildPointer says
\* whether that garbage is non-null, in which case CFRelease is handed it.
FindKeypressCookies(keys, copyOk, elements, wildPointer, ndbg) ==
    LET st0 == [keys |-> keys, msgs |-> <<>>, asserted |-> FALSE]
    IN Bind(IF copyOk THEN ScanElements(st0, elements, 1, Len(elements), ndbg)
            ELSE [st0 EXCEPT !.msgs = <<"copyMatchingElements failed. code: ">>],
            LAMBDA st1 :
                [ok |-> ScoreSucceeds(Score(st1.keys)),
                 keys |-> st1.keys,
                 msgs |-> st1.msgs,
                 asserted |-> st1.asserted,
                 crashed |-> (~copyOk /\ wildPointer)])

(***************************************************************************)
(* The driver's bookkeeping of the resources it handed out, updated from   *)
(* the calls the session makes.                                            *)
(***************************************************************************)
DrvInit ==
    [deviceRefs |-> 0,          \* references to the io_object_t handed out
     plugIn |-> "none",         \* none, live, destroyed
     iface |-> "none",          \* none, obtained, open, closed, released
     queue |-> "Unallocated",   \* Unallocated, Allocated, Created, Started, Released
     elements |-> {}]           \* cookies subscribed with addElement

DriverApply(d, c) ==
    CASE c.fn = "IOServiceGetMatchingService" /\ c.ok ->
            [d EXCEPT !.deviceRefs = @ + 1]
      [] c.fn = "IOObjectRelease" ->
            [d EXCEPT !.deviceRefs = @ - 1]
      [] c.fn = "IOCreatePlugInInterfaceForService" /\ c.ok ->
            [d EXCEPT !.plugIn = "live"]
      [] c.fn = "IODestroyPlugInInterface" ->
            [d EXCEPT !.plugIn = "destroyed"]
      [] c.fn = "QueryInterface" /\ c.ok ->
            [d EXCEPT !.iface = "obtained"]
      [] c.fn = "open" /\ c.ok ->
            [d EXCEPT !.iface = "open"]
      [] c.fn = "close" ->
            [d EXCEPT !.iface = IF @ = "open" THEN "closed" ELSE @]
      [] c.fn = "IOHIDDeviceInterface::Release" ->
            [d EXCEPT !.iface = "released"]
      [] c.fn = "allocQueue" /\ c.ok ->
            [d EXCEPT !.queue = "Allocated"]
      [] c.fn = "create" /\ c.ok ->
            [d EXCEPT !.queue = "Created"]
      [] c.fn = "start" /\ c.ok ->
            [d EXCEPT !.queue = "Started"]
      [] c.fn = "addElement" /\ c.ok ->
            [d EXCEPT !.elements = @ \cup {c.arg}]
      [] c.fn = "IOHIDQueueInterface::Release" ->
            [d EXCEPT !.queue = "Released"]
      [] OTHER -> d

\* the driver's bookkeeping after the calls lo..hi of a sequence, in order
RECURSIVE ApplyCalls(_, _, _, _)
ApplyCalls(d, calls, lo, hi) ==
    IF lo > hi THEN d
    ELSE IF lo = hi THEN DriverApply(d, calls[lo])
    ELSE LET mid == (lo + hi) \div 2
         IN Bind(ApplyCalls(d, calls, lo, mid),
                 LAMBDA half : ApplyCalls(half, calls, mid + 1, hi))

(***************************************************************************)
(* PrivateImpl and its destructor.                                         *)
(***************************************************************************)
NULL == [m_hidDevice |-> 0, m_hidDeviceInterface |-> 0,
         m_plugInInterface |-> 0, m_hidQueue |-> 0, allocated |-> FALSE]

\* PrivateImpl::PrivateImpl, reached through `new PrivateImpl' at line 171
PrivateImpl == [NULL EXCEPT !.allocated = TRUE]

\* a destructor that forgets IOObjectRelease
PrivateImplDtorLeaksDevice(p) ==
       (IF p.m_hidDeviceInterface # 0
        THEN <<Call("close", 0, TRUE), Call("IOHIDDeviceInterface::Release", 0, TRUE)>>
        ELSE <<>>)
    \o (IF p.m_plugInInterface # 0
        THEN <<Call("IODestroyPlugInInterface", 0, TRUE)>> ELSE <<>>)
    \o (IF p.m_hidQueue # 0
        THEN <<Call("IOHIDQueueInterface::Release", 0, TRUE)>> ELSE <<>>)

\* a destructor that releases in acquisition order
PrivateImplDtorForward(p) ==
       (IF p.m_hidDevice # 0
        THEN <<Call("IOObjectRelease", 0, TRUE)>> ELSE <<>>)
    \o (IF p.m_plugInInterface # 0
        THEN <<Call("IODestroyPlugInInterface", 0, TRUE)>> ELSE <<>>)
    \o (IF p.m_hidDeviceInterface # 0
        THEN <<Call("close", 0, TRUE), Call("IOHIDDeviceInterface::Release", 0, TRUE)>>
        ELSE <<>>)
    \o (IF p.m_hidQueue # 0
        THEN <<Call("IOHIDQueueInterface::Release", 0, TRUE)>> ELSE <<>>)

\* PrivateImpl::~PrivateImpl: the driver calls it makes, in order
PrivateImplDtor(p) ==
       (IF p.m_hidDeviceInterface # 0
        THEN <<Call("close", 0, TRUE), Call("IOHIDDeviceInterface::Release", 0, TRUE)>>
        ELSE <<>>)
    \o (IF p.m_plugInInterface # 0
        THEN <<Call("IODestroyPlugInInterface", 0, TRUE)>> ELSE <<>>)
    \o (IF p.m_hidQueue # 0
        THEN <<Call("IOHIDQueueInterface::Release", 0, TRUE)>> ELSE <<>>)
    \o (IF p.m_hidDevice # 0
        THEN <<Call("IOObjectRelease", 0, TRUE)>> ELSE <<>>)

\* m_pimpl.reset() and the implicit destructor of the session: the last
\* owner of the PrivateImpl lets go of it
ResetPimpl(p) == IF p.allocated THEN PrivateImplDtor(p) ELSE <<>>

(***************************************************************************)
(* The stages of Initialize.  Each takes the PrivateImpl and the driver's  *)
(* scripted answers and yields [ok, pimpl, calls, msgs]: its result, the   *)
(* PrivateImpl afterwards, the driver calls made and the messages handed   *)
(* to LogErrorWhenFunctorIsntEmpty.                                        *)
(***************************************************************************)
StageResult(ok, p, calls, msgs) ==
    [ok |-> ok, pimpl |-> p, calls |-> calls, msgs |-> msgs]

FindKeyboard(p, outcome) ==
    CASE outcome = "noDict" ->
            StageResult(FALSE, p,
                <<Call("IOServiceMatching", 0, FALSE)>>,
                <<"Failed to retrieve device key matching dictionary.">>)
      [] outcome = "noNumber" ->
            StageResult(FALSE, [p EXCEPT !.m_hidDevice = 0],
                <<Call("IOServiceMatching", 0, TRUE),
                  Call("CFNumberCreate", 0, FALSE),
                  Call("CFNumberCreate", 0, FALSE)>>,
                <<"Failed to find kHIDPage_GenericDesktop and/or kHIDUsage_GD_Keyboard.">>)
      [] outcome = "noMatch" ->
            StageResult(FALSE, [p EXCEPT !.m_hidDevice = 0],
                <<Call("IOServiceMatching", 0, TRUE),
                  Call("CFNumberCreate", 0, TRUE),
                  Call("CFNumberCreate", 0, TRUE),
                  Call("IOServiceGetMatchingService", 0, FALSE)>>,
                <<>>)
      [] OTHER ->
            StageResult(TRUE, [p EXCEPT !.m_hidDevice = 1],
                <<Call("IOServiceMatching", 0, TRUE),
                  Call("CFNumberCreate", 0, TRUE),
                  Call("CFNumberCreate", 0, TRUE),
                  Call("IOServiceGetMatchingService", 0, TRUE)>>,
                <<>>)

CreatePluginInterface(p, plugInOk) ==
    IF plugInOk
    THEN StageResult(TRUE, [p EXCEPT !.m_plugInInterface = 1],
            <<Call("IOCreatePlugInInterfaceForService", 0, TRUE)>>, <<>>)
    ELSE StageResult(FALSE, p,
            <<Call("IOCreatePlugInInterfaceForService", 0, FALSE)>>,
            <<"IOCreatePlugInInterfaceForService failed with value ">>)

\* a CreateDeviceInterface that takes the interface it obtained as enough
CreateDeviceInterfaceIgnoresOpen(p, queryOk, openOk) ==
    IF ~queryOk
    THEN StageResult(FALSE, p,
            <<Call("QueryInterface", 0, FALSE)>>,
            <<"Failed to create IOHIDDeviceInterface.">>)
    ELSE StageResult(TRUE, [p EXCEPT !.m_hidDeviceInterface = 1],
            <<Call("QueryInterface", 0, TRUE), Call("open", 0, openOk)>>,
            <<>>)

CreateDeviceInterface(p, queryOk, openOk) ==
    IF ~queryOk
    THEN StageResult(FALSE, p,
            <<Call("QueryInterface", 0, FALSE)>>,
            <<"Failed to create IOHIDDeviceInterface.">>)
    ELSE IF ~openOk
    THEN StageResult(FALSE, [p EXCEPT !.m_hidDeviceInterface = 1],
            <<Call("QueryInterface", 0, TRUE), Call("open", 0, FALSE)>>,
            <<"Failed to open the IOHIDDeviceInterface. Failed with value ">>)
    ELSE StageResult(TRUE, [p EXCEPT !.m_hidDeviceInterface = 1],
            <<Call("QueryInterface", 0, TRUE), Call("open", 0, TRUE)>>,
            <<>>)

\* a CreateQueue that starts the queue whatever create answered
CreateQueueStartsAnyway(p, allocOk, createOk, startOk) ==
    IF ~allocOk
    THEN StageResult(FALSE, [p EXCEPT !.m_hidQueue = 0],
            <<Call("allocQueue", 0, FALSE)>>,
            <<"Failed to alloc IOHIDQueueInterface ** via allocQueue">>)
    ELSE StageResult(startOk, [p EXCEPT !.m_hidQueue = 1],
            <<Call("allocQueue", 0, TRUE), Call("create", QueueDepth, createOk),
              Call("start", 0, startOk)>>,
            IF startOk THEN <<>> ELSE <<"Failed to start queue.">>)

CreateQueue(p, allocOk, createOk, startOk) ==
    IF ~allocOk
    THEN StageResult(FALSE, [p EXCEPT !.m_hidQueue = 0],
            <<Call("allocQueue", 0, FALSE)>>,
            <<"Failed to alloc IOHIDQueueInterface ** via allocQueue">>)
    ELSE IF ~createOk
    THEN StageResult(FALSE, [p EXCEPT !.m_hidQueue = 1],
            <<Call("allocQueue", 0, TRUE), Call("create", QueueDepth, FALSE)>>,
            <<"Failed to create queue. Error: ">>)
    ELSE IF ~startOk
    THEN StageResult(FALSE, [p EXCEPT !.m_hidQueue = 1],
            <<Call("allocQueue", 0, TRUE), Call("create", QueueDepth, TRUE),
              Call("start", 0, FALSE)>>,
            <<"Failed to start queue.">>)
    ELSE StageResult(TRUE, [p EXCEPT !.m_hidQueue = 1],
            <<Call("allocQueue", 0, TRUE), Call("create", QueueDepth, TRUE),
              Call("start", 0, TRUE)>>,
            <<>>)

\* an AddElementsToQueue that offers every key that holds a handle
AddElementsToQueueEveryHandle(keys, addFail, ndbg) ==
    Bind({i \in DOMAIN keys : keys[i].macCookieValue # 0},
         LAMBDA bound :
            [ok |-> \A i \in bound : keys[i].macCookieValue \notin addFail,
             calls |-> CallsOver("addElement", keys, bound, addFail),
             asserted |-> FALSE])

\* an AddElementsToQueue that leaves the loop at the first refusal
AddElementsToQueueStopsAtRefusal(keys, addFail, ndbg) ==
    Bind({i \in ActiveIndices(keys) : keys[i].macCookieValue \in addFail},
         LAMBDA failing :
            Bind(IF failing # {}
                 THEN {i \in ActiveIndices(keys) : \A j \in failing : i <= j}
                 ELSE ActiveIndices(keys),
                 LAMBDA reached :
                    [ok |-> failing = {},
                     calls |-> CallsOver("addElement", keys, reached, addFail),
                     asserted |-> failing # {} /\ ~ndbg]))

\* AddElementsToQueue: [ok, calls, asserted]; addFail is the set of cookies
\* for which addElement answers with a failure status.  With assert active
\* the first failure ends the process; otherwise the loop goes on.
AddElementsToQueue(keys, addFail, ndbg) ==
    Bind({i \in ActiveIndices(keys) : keys[i].macCookieValue \in addFail},
         LAMBDA failing :
            Bind(IF failing # {} /\ ~ndbg
                 THEN {i \in ActiveIndices(keys) : \A j \in failing : i <= j}
                 ELSE ActiveIndices(keys),
                 LAMBDA reached :
                    [ok |-> failing = {},
                     calls |-> CallsOver("addElement", keys, reached, addFail),
                     asserted |-> failing # {} /\ ~ndbg]))

(***************************************************************************)
(* Initialize, lines 179-212.  script holds the driver's answers; the      *)
(* result records the session's fields afterwards and what was done.       *)
(*   outcome: "returned", or "aborted" when an assert failed or the wild   *)
(*   pointer of FindKeypressCookies was released.                          *)
(***************************************************************************)
LogInitializationError(errorDesc) == <<errorDesc>>

InitResult(outcome, p, keys, calls, msgs, basic, stage) ==
    [outcome |-> outcome, pimpl |-> p, keys |-> keys, calls |-> calls,
     msgs |-> msgs, basicSuccess |-> basic, failedStage |-> stage]

\* a basic failure that runs the releases of ~PrivateImpl and keeps the
\* PrivateImpl, handles included
BasicFailureKeepsPimpl(p, keys, calls, msgs, stage) ==
    InitResult("returned", p, keys,
               calls \o PrivateImplDtor(p),
               msgs \o LogInitializationError("Failed basic keyboard initialization."),
               FALSE, stage)

\* lines 194-198: the else branch of the basic stages
BasicFailure(p, keys, calls, msgs, stage) ==
    InitResult("returned", NULL, keys,
               calls \o ResetPimpl(p),
               msgs \o LogInitializationError("Failed basic keyboard initialization."),
               FALSE, stage)

\* a queue failure handled like a basic failure: the PrivateImpl is dropped
QueueFailureDropsPimpl(p, keys, calls, msgs, stage) ==
    InitResult("returned", NULL, keys, calls \o ResetPimpl(p),
               msgs \o LogInitializationError("Failed basic keyboard input queue initialization."),
               TRUE, stage)

\* lines 207-210: the else branch of the queue stages; the PrivateImpl and
\* whatever the queue stages acquired are kept
QueueFailure(p, keys, calls, msgs, stage) ==
    InitResult("returned", p, keys, calls,
               msgs \o LogInitializationError("Failed basic keyboard input queue initialization."),
               TRUE, stage)

\* queue stages joined without short circuit: AddElementsToQueue runs
\* whatever CreateQueue returned
QueueStagesBothRun(p, keys, calls, msgs, queueEnabled, script, ndbg) ==
    IF ~queueEnabled
    THEN InitResult("returned", p, keys, calls, msgs, TRUE, "none")
    ELSE LET q == CreateQueue(p, script.allocOk, script.createOk, script.startOk)
             a == AddElementsToQueue(keys, script.addFail, ndbg)
         IN IF a.asserted
            THEN InitResult("aborted", q.pimpl, keys,
                    calls \o q.calls \o a.calls, msgs \o q.msgs, TRUE,
                    "AddElementsToQueue")
            ELSE IF ~q.ok \/ ~a.ok
            THEN QueueFailure(q.pimpl, keys, calls \o q.calls \o a.calls,
                              msgs \o q.msgs,
                              IF ~q.ok THEN "CreateQueue" ELSE "AddElementsToQueue")
            ELSE InitResult("returned", q.pimpl, keys,
                    calls \o q.calls \o a.calls, msgs, TRUE, "none")

\* queue stages that run whether or not queueing was asked for
QueueStagesUnasked(p, keys, calls, msgs, queueEnabled, script, ndbg) ==
    LET q == CreateQueue(p, script.allocOk, script.createOk, script.startOk)
    IN IF ~q.ok
       THEN QueueFailure(q.pimpl, keys, calls \o q.calls, msgs \o q.msgs,
                         "CreateQueue")
       ELSE LET a == AddElementsToQueue(keys, script.addFail, ndbg)
            IN  IF a.asserted
               THEN InitResult("aborted", q.pimpl, keys,
                       calls \o q.calls \o a.calls, msgs, TRUE, "AddElementsToQueue")
               ELSE IF ~a.ok
               THEN QueueFailure(q.pimpl, keys, calls \o q.calls \o a.calls,
                                 msgs, "AddElementsToQueue")
               ELSE InitResult("returned", q.pimpl, keys,
                       calls \o q.calls \o a.calls, msgs, TRUE, "none")

\* lines 200-211: the optional queue stages
QueueStages(p, keys, calls, msgs, queueEnabled, script, ndbg) ==
    IF ~queueEnabled
    THEN InitResult("returned", p, keys, calls, msgs, TRUE, "none")
    ELSE LET q == CreateQueue(p, script.allocOk, script.createOk, script.startOk)
         IN IF ~q.ok
            THEN QueueFailure(q.pimpl, keys, calls \o q.calls, msgs \o q.msgs,
                              "CreateQueue")
            ELSE LET a == AddElementsToQueue(keys, script.addFail, ndbg)
                 IN  IF a.asserted
                    THEN InitResult("aborted", q.pimpl, keys,
                            calls \o q.calls \o a.calls, msgs, TRUE, "AddElementsToQueue")
                    ELSE IF ~a.ok
                    THEN QueueFailure(q.pimpl, keys, calls \o q.calls \o a.calls,
                                      msgs, "AddElementsToQueue")
                    ELSE InitResult("returned", q.pimpl, keys,
                            calls \o q.calls \o a.calls, msgs, TRUE, "none")

Initialize(p0, keys0, queueEnabled, script, ndbg) ==
    LET s1 == FindKeyboard(p0, script.findKeyboard) IN
    IF ~s1.ok
    THEN BasicFailure(s1.pimpl, keys0, s1.calls, s1.msgs, "FindKeyboard")
    ELSE
    LET s2 == CreatePluginInterface(s1.pimpl, script.plugInOk)
        c2 == s1.calls \o s2.calls
        m2 == s1.msgs \o s2.msgs IN
    IF ~s2.ok
    THEN BasicFailure(s2.pimpl, keys0, c2, m2, "CreatePluginInterface")
    ELSE
    LET s3 == CreateDeviceInterface(s2.pimpl, script.queryOk, script.openOk)
        c3 == c2 \o s3.calls
        m3 == m2 \o s3.msgs IN
    IF ~s3.ok
    THEN BasicFailure(s3.pimpl, keys0, c3, m3, "CreateDeviceInterface")
    ELSE
    LET s4 == PopulateVectorOfKeyInfo(keys0, ndbg) IN
    IF s4.asserted
    THEN InitResult("aborted", s3.pimpl, s4.keys, c3, m3, FALSE, "PopulateVectorOfKeyInfo")
    ELSE IF ~s4.ok
    THEN BasicFailure(s3.pimpl, s4.keys, c3, m3, "PopulateVectorOfKeyInfo")
    ELSE
    Bind(FindKeypressCookies(s4.keys, script.copyOk, script.elements,
                             script.wildPointer, ndbg),
         LAMBDA s5 :
            LET c5 == c3 \o <<Call("copyMatchingElements", 0, script.copyOk)>>
                m5 == m3 \o s5.msgs
            IN IF s5.asserted \/ s5.crashed
               THEN InitResult("aborted", s3.pimpl, s5.keys, c5, m5, FALSE,
                               "FindKeypressCookies")
               ELSE IF ~s5.ok
               THEN BasicFailure(s3.pimpl, s5.keys, c5, m5, "FindKeypressCookies")
               ELSE QueueStages(s3.pimpl, s5.keys, c5, m5, queueEnabled, script, ndbg))

(***************************************************************************)
(* LogErrorWhenFunctorIsntEmpty: the messages that reach the functor.      *)
(***************************************************************************)
\* line 31 without the test of line 29: the functor is called for every
\* message
FunctorCalledUnguarded(functorSet, msgs) == msgs # <<>>

\* lines 29-32: the functor is called when there is a message and the
\* functor is not empty
FunctorCalled(functorSet, msgs) == functorSet /\ msgs # <<>>

LogErrorWhenFunctorIsntEmpty(functorSet, msgs) ==
    IF FunctorCalled(functorSet, msgs) THEN msgs ELSE <<>>

\* the call of line 31 on an empty boost::function throws
\* boost::bad_function_call, which nothing in the class catches
BadFunctionCall(functorSet, msgs) ==
    FunctorCalled(functorSet, msgs) /\ ~functorSet

\* the lifetime phase after an operation that handed msgs to
\* LogErrorWhenFunctorIsntEmpty and would otherwise end in phase `normal'
PhaseAfterLogging(functorSet, msgs, normal) ==
    IF BadFunctionCall(functorSet, msgs) THEN "aborted" ELSE normal

(***************************************************************************)
(* The driver reports and scripts the model draws from.                    *)
(***************************************************************************)
\* the cookie the modelled keyboard assigns to the element of usage u
CookieFor(u) == u + 1000

\* well-formed keyboard-page descriptors for the usages lo..hi
Bulk(lo, hi) ==
    [i \in 1..(hi - lo + 1) |->
        Descriptor(Num(CookieFor(lo + i - 1)), Num(lo + i - 1),
                   Num(kHIDPage_KeyboardOrKeypad))]

\* 40 non-ignored keys; 41 non-ignored keys; the usages 1..102
BulkRanges == {<<4, 43>>, <<4, 44>>, <<1, 102>>}

\* extra descriptors a report may end with: a second descriptor for usage
\* 4, a usage beyond the table, and one without a usage page
TailDescriptors ==
    {Descriptor(Num(2004), Num(4), Num(kHIDPage_KeyboardOrKeypad)),
     Descriptor(Num(2200), Num(200), Num(kHIDPage_KeyboardOrKeypad)),
     Descriptor(Num(2005), Num(5), Absent)}

RECURSIVE SeqsUpTo(_, _)
SeqsUpTo(S, n) ==
    IF n = 0 THEN {<<>>}
    ELSE LET shorter == SeqsUpTo(S, n - 1)
         IN shorter \cup {Append(t, x) : t \in shorter, x \in S}

\* the range whose report may end with extra descriptors
TailedRange == <<4, 44>>

Reports ==
    {Bulk(r[1], r[2]) : r \in BulkRanges}
    \cup {Bulk(TailedRange[1], TailedRange[2]) \o t :
              t \in SeqsUpTo(TailDescriptors, MaxTail)}

\* cookies whose addElement / getElementValue the driver may refuse
FaultableCookies == {CookieFor(4)}

\* an addElement refused after another was accepted: the second key offered
LaterSubscriptionFault == {CookieFor(5)}

\* cookies of the keys the user presses and releases
PressableCookies == {CookieFor(4), CookieFor(kHIDUsage_KeyboardErrorRollOver)}

AllGood ==
    [findKeyboard |-> "found", plugInOk |-> TRUE, queryOk |-> TRUE,
     openOk |-> TRUE, copyOk |-> TRUE, elements |-> <<>>,
     wildPointer |-> FALSE, allocOk |-> TRUE, createOk |-> TRUE,
     startOk |-> TRUE, addFail |-> {}]

\* the driver's answers to one run of Initialize; answers past the first
\* refusal are never asked for and are left at their defaults
Scripts ==
         {[AllGood EXCEPT !.findKeyboard = f] : f \in {"noDict", "noNumber", "noMatch"}}
    \cup {[AllGood EXCEPT !.plugInOk = FALSE],
          [AllGood EXCEPT !.queryOk = FALSE],
          [AllGood EXCEPT !.openOk = FALSE]}
    \cup {[AllGood EXCEPT !.copyOk = FALSE, !.wildPointer = w] : w \in BOOLEAN}
    \cup {[AllGood EXCEPT !.elements = r] : r \in Reports}
    \cup {[AllGood EXCEPT !.elements = r, !.allocOk = FALSE] : r \in Reports}
    \cup {[AllGood EXCEPT !.elements = r, !.createOk = FALSE] : r \in Reports}
    \cup {[AllGood EXCEPT !.elements = r, !.startOk = FALSE] : r \in Reports}
    \cup {[AllGood EXCEPT !.elements = r, !.addFail = f] :
              r \in Reports, f \in (SUBSET FaultableCookies) \ {{}}}
    \cup {[AllGood EXCEPT !.elements = Bulk(TailedRange[1], TailedRange[2]),
                          !.addFail = LaterSubscriptionFault]}

(***************************************************************************)
(* State.                                                                  *)
(***************************************************************************)
VARIABLES
    phase,          \* "unborn", "live", "destroyed", "aborted"
    NDEBUG,         \* build: assert() compiled out
    DEBUG,          \* build: _DEBUG defined (DebugCheckErrorKeys active)
    m_pimpl,        \* NULL or the PrivateImpl
    m_keys,         \* the key table
    m_errorLoggerFunctor,   \* TRUE iff the functor is not empty
    m_queueEnabled,
    pc,             \* "idle", or "drain" inside ReadFromQueue_Experimental
    ioReturnValue,  \* local of ReadFromQueue_Experimental
    drv,            \* the driver's bookkeeping
    hidQueue,       \* events pending in the driver's queue
    pressed,        \* cookies whose current element value is nonzero
    lastOp,         \* the operation in progress or last completed
    ret,            \* value returned by the last CountOfCurrentlyDepressedKeys
    opCalls,        \* driver calls made by lastOp
    errorLog,       \* messages delivered to the functor by lastOp
    retrieved,      \* events the drain loop body has handled (lastOp)
    yielded,        \* events getNextEvent has handed out (lastOp)
    init,           \* what Initialize did: [basicSuccess, failedStage]
    elements,       \* FindKeypressCookies: the array of copyMatchingElements
    elementIndex,   \* FindKeypressCookies: descriptors the for loop has done
    success,        \* value returned by the stage function called last
    twin            \* phase of the session that is given the same inputs
                    \* but the opposite choice of error logger

vars == <<phase, NDEBUG, DEBUG, m_pimpl, m_keys, m_errorLoggerFunctor,
          m_queueEnabled, pc, ioReturnValue, drv, hidQueue, pressed, lastOp,
          ret, opCalls, errorLog, retrieved, yielded, init, elements,
          elementIndex, success, twin>>

build == <<NDEBUG, DEBUG>>
session == <<m_pimpl, m_keys, m_errorLoggerFunctor, m_queueEnabled>>
\* the stage function in progress when a stage is run on its own
stage == <<elements, elementIndex, success>>

Init ==
    /\ phase = "unborn"
    /\ NDEBUG \in BOOLEAN
    /\ DEBUG \in BOOLEAN
    /\ m_pimpl = NULL
    /\ m_keys = EmptyKeys
    /\ m_errorLoggerFunctor = FALSE
    /\ m_queueEnabled = FALSE
    /\ pc = "idle"
    /\ ioReturnValue = kIOReturnError
    /\ drv = DrvInit
    /\ hidQueue = <<>>
    /\ pressed = {}
    /\ lastOp = "none"
    /\ ret = 0
    /\ opCalls = <<>>
    /\ errorLog = <<>>
    /\ retrieved = <<>>
    /\ yielded = <<>>
    /\ init = [basicSuccess |-> FALSE, failedStage |-> "none"]
    /\ elements = <<>>
    /\ elementIndex = 0
    /\ success = FALSE
    /\ twin = "unborn"

(***************************************************************************)
(* The constructor, lines 166-176: member initialisers, then Initialize(). *)
(***************************************************************************)
Construct(enableQueue, functorSet, script) ==
    /\ phase = "unborn"
    /\ \E r \in {Initialize(PrivateImpl, EmptyKeys, enableQueue, script, NDEBUG)} :
          /\ phase' = PhaseAfterLogging(functorSet, r.msgs,
                         IF r.outcome = "returned" THEN "live" ELSE "aborted")
          /\ twin' = PhaseAfterLogging(~functorSet, r.msgs,
                         IF r.outcome = "returned" THEN "live" ELSE "aborted")
          /\ m_pimpl' = r.pimpl
          /\ m_keys' = r.keys
          /\ opCalls' = r.calls
          /\ errorLog' = LogErrorWhenFunctorIsntEmpty(functorSet, r.msgs)
          /\ drv' = ApplyCalls(drv, opCalls', 1, Len(opCalls'))
          /\ init' = [basicSuccess |-> r.basicSuccess, failedStage |-> r.failedStage]
    /\ m_errorLoggerFunctor' = functorSet
    /\ m_queueEnabled' = enableQueue
    /\ lastOp' = "Initialize"
    /\ UNCHANGED <<build, pc, ioReturnValue, hidQueue, pressed, ret, retrieved, yielded>>
    /\ UNCHANGED stage

(***************************************************************************)
(* getElementValue as the driver answers it: refused for the cookies of    *)
(* failSet and for the null cookie, else the element's current value.      *)
(***************************************************************************)
GetElementValueOk(cookie, failSet) == cookie # 0 /\ cookie \notin failSet

ElementValue(cookie) == IF cookie \in pressed THEN 1 ELSE 0

\* DebugCheckErrorKeys, lines 281-339: [calls, msgs]; empty unless _DEBUG
DebugCheckOne(keys, usage, name, failSet) ==
    LET cookie == keys[usage].macCookieValue
        ok == GetElementValueOk(cookie, failSet)
    IN [calls |-> <<Call("getElementValue", cookie, ok)>>,
        msgs |-> IF ok /\ ElementValue(cookie) # 0 THEN <<name>> ELSE <<>>]

DebugCheckErrorKeys(keys, failSet, dbg) ==
    IF ~dbg THEN [calls |-> <<>>, msgs |-> <<>>]
    ELSE LET a == DebugCheckOne(keys, kHIDUsage_KeyboardErrorRollOver,
                                "kHIDUsage_KeyboardErrorRollOver", failSet)
             b == DebugCheckOne(keys, kHIDUsage_KeyboardPOSTFail,
                                "kHIDUsage_KeyboardPOSTFail", failSet)
             c == DebugCheckOne(keys, kHIDUsage_KeyboardErrorUndefined,
                                "kHIDUsage_KeyboardErrorUndefined", failSet)
             d == DebugCheckOne(keys, kHIDUsage_KeyboardPower,
                                "kHIDUsage_KeyboardPower", failSet)
         IN [calls |-> a.calls \o b.calls \o c.calls \o d.calls,
             msgs |-> a.msgs \o b.msgs \o c.msgs \o d.msgs]

\* lines 248-277, the polling loop: [score, calls, asserted].
\* After a refused getElementValue, with assert compiled out, line 268 reads
\* theEvent.value uninitialised: garbage is the set of cookies for which
\* that read yields a nonzero value.
PollKeys(keys, failSet, garbage, ndbg) ==
    Bind({i \in ActiveIndices(keys) :
             ~GetElementValueOk(keys[i].macCookieValue, failSet)},
         LAMBDA failing :
            Bind(IF failing # {} /\ ~ndbg
                 THEN {i \in ActiveIndices(keys) : \A j \in failing : i <= j}
                 ELSE ActiveIndices(keys),
                 LAMBDA reached :
                    [score |-> Cardinality(
                         {i \in reached :
                             IF i \in failing
                             THEN keys[i].macCookieValue \in garbage
                             ELSE ElementValue(keys[i].macCookieValue) # 0}),
                     calls |-> CallsOver("getElementValue", keys, reached,
                                         failSet \cup {0}),
                     asserted |-> failing # {} /\ ~ndbg]))

\* line 241: the session never completed its basic initialization
CountBailsOut(p) == ~p.allocated

\* a result whose error value is not negative
CountResultNoSentinel(bailedOut, score) == IF bailedOut THEN 0 ELSE score

\* lines 243 and 277: the value returned, negative to indicate the error
CountResult(bailedOut, score) == IF bailedOut THEN -1 ELSE score

\* CountOfCurrentlyDepressedKeys, lines 239-278
CountOfCurrentlyDepressedKeys(failSet, garbage) ==
    /\ phase = "live"
    /\ pc = "idle"
    /\ lastOp' = "CountOfCurrentlyDepressedKeys"
    /\ IF CountBailsOut(m_pimpl)
       THEN /\ ret' = CountResult(TRUE, 0)
            /\ opCalls' = <<>>
            /\ errorLog' = <<>>
            /\ phase' = phase
            /\ twin' = twin
       ELSE \E d \in {DebugCheckErrorKeys(m_keys, failSet, DEBUG)},
                r \in {PollKeys(m_keys, failSet, garbage, NDEBUG)} :
               /\ opCalls' = d.calls \o r.calls
               /\ errorLog' = LogErrorWhenFunctorIsntEmpty(m_errorLoggerFunctor, d.msgs)
               /\ phase' = PhaseAfterLogging(m_errorLoggerFunctor, d.msgs,
                              IF r.asserted THEN "aborted" ELSE phase)
               /\ twin' = PhaseAfterLogging(~m_errorLoggerFunctor, d.msgs,
                              IF r.asserted THEN "aborted" ELSE twin)
               /\ ret' = IF r.asserted THEN ret ELSE CountResult(FALSE, r.score)
    /\ retrieved' = <<>>
    /\ yielded' = <<>>
    /\ ioReturnValue' = kIOReturnError
    /\ UNCHANGED <<build, session, pc, drv, hidQueue, pressed, init>>
    /\ UNCHANGED stage

(***************************************************************************)
(* ReadFromQueue_Experimental, lines 351-427.  The call and every pass     *)
(* through the loop condition are separate steps, because the driver       *)
(* enqueues events while the loop runs.                                    *)
(***************************************************************************)
\* IOHIDEventStruct, without its timestamp and long value
Event(type, cookie, value) ==
    [type |-> type, elementCookie |-> cookie, value |-> value]

\* lines 353-356: the early return
DrainBailsOut(p) == (~p.allocated) \/ (p.m_hidQueue = 0)

ReadFromQueue_Experimental ==
    /\ phase = "live"
    /\ pc = "idle"
    /\ lastOp' = "ReadFromQueue_Experimental"
    /\ opCalls' = <<>>
    /\ errorLog' = <<>>
    /\ retrieved' = <<>>
    /\ yielded' = <<>>
    /\ ioReturnValue' = kIOReturnError
    /\ ret' = 0
    /\ pc' = IF DrainBailsOut(m_pimpl) THEN "idle" ELSE "drain"
    /\ UNCHANGED <<phase, twin, build, session, drv, hidQueue, pressed, init>>
    /\ UNCHANGED stage

\* a ghost record keeps at most n entries
Keep(s, x, n) == IF Len(s) < n THEN Append(s, x) ELSE s

\* getNextEvent with a zero timeout, as the driver answers it: refused when
\* fault, kIOReturnUnderrun when nothing is pending, else the oldest event
GetNextEventStatus(fault) ==
    IF fault THEN kIOReturnError
    ELSE IF hidQueue = <<>> THEN kIOReturnUnderrun
    ELSE kIOReturnSuccess

\* a loop that only stops on a hard error
DrainContinuesUnlessError(status) == status # kIOReturnError

\* line 363: the loop goes on while the status is kIOReturnSuccess
DrainContinues(status) == status = kIOReturnSuccess

\* a loop body that drops the events that are not of the button type
DrainBodyButtonsOnly(handled, the_event) ==
    IF the_event.type # kIOHIDElementTypeInput_Button THEN handled
    ELSE Keep(handled, the_event, MaxTrace)

\* a loop body that handles nothing more once it has met an event that is
\* not of the button type
DrainBodyGivesUpAfterOther(handled, the_event) ==
    IF \E i \in DOMAIN handled :
          handled[i].type # kIOHIDElementTypeInput_Button
    THEN handled
    ELSE Keep(handled, the_event, MaxTrace)

\* lines 394-414: the loop body; it handles the event whatever its type
DrainBody(handled, the_event) == Keep(handled, the_event, MaxTrace)

\* a report made whatever ended the loop
DrainReportAlways(status) == <<"getNextEvent failed. code: ">>

\* lines 417-426: the report after the loop
DrainReport(status) ==
    IF status # kIOReturnUnderrun
    THEN <<"getNextEvent failed. code: ">> ELSE <<>>

DrainStep(fault) ==
    /\ phase = "live"
    /\ pc = "drain"
    /\ LET status == GetNextEventStatus(fault)
           the_event == IF status = kIOReturnSuccess THEN Head(hidQueue)
                        ELSE Event(0, 0, 0)
       IN /\ ioReturnValue' = status
          /\ opCalls' = Keep(opCalls,
                             Call("getNextEvent", 0, status = kIOReturnSuccess),
                             MaxTrace + 1)
          /\ IF status = kIOReturnSuccess
             THEN /\ hidQueue' = Tail(hidQueue)
                  /\ yielded' = Keep(yielded, Head(hidQueue), MaxTrace)
             ELSE UNCHANGED <<hidQueue, yielded>>
          /\ IF DrainContinues(status)
             THEN /\ retrieved' = DrainBody(retrieved, the_event)
                  /\ UNCHANGED <<pc, errorLog, phase, twin>>
             ELSE /\ pc' = "idle"
                  /\ errorLog' = LogErrorWhenFunctorIsntEmpty(
                                     m_errorLoggerFunctor, DrainReport(status))
                  /\ phase' = PhaseAfterLogging(m_errorLoggerFunctor,
                                                DrainReport(status), phase)
                  /\ twin' = PhaseAfterLogging(~m_errorLoggerFunctor,
                                               DrainReport(status), twin)
                  /\ UNCHANGED retrieved
    /\ UNCHANGED <<build, session, drv, pressed, lastOp, ret, init>>
    /\ UNCHANGED stage

(***************************************************************************)
(* The keyboard and the driver's queue.                                    *)
(***************************************************************************)
Subscribed(cookie) == drv.queue = "Started" /\ cookie \in drv.elements

\* lastOp, ret, opCalls, errorLog, retrieved and yielded describe the
\* operation that has just returned or is running; once the keyboard moves
\* on after a return they describe nothing and are cleared
RecordsAfterChange ==
    IF pc = "idle"
    THEN /\ lastOp' = "none"
         /\ ret' = 0
         /\ opCalls' = <<>>
         /\ errorLog' = <<>>
         /\ retrieved' = <<>>
         /\ yielded' = <<>>
         /\ ioReturnValue' = kIOReturnError
    ELSE UNCHANGED <<lastOp, ret, opCalls, errorLog, retrieved, yielded,
                     ioReturnValue>>

\* the queue takes an event: it was created QueueDepth deep, "the maximum
\* number of elements in the queue before the oldest elements in the queue
\* begin to be lost" (line 880)
Enqueue(q, e) ==
    IF Len(q) < QueueDepth THEN Append(q, e) ELSE Append(Tail(q), e)

\* a key of this keyboard goes down or up; a started queue records it if
\* the element is subscribed
KeyChange(cookie) ==
    /\ phase = "live"
    /\ drv.iface = "open"
    /\ \E i \in DOMAIN m_keys : m_keys[i].macCookieValue = cookie
    /\ pressed' = IF cookie \in pressed THEN pressed \ {cookie}
                  ELSE pressed \cup {cookie}
    /\ hidQueue' = IF Subscribed(cookie)
                   THEN Enqueue(hidQueue,
                                Event(kIOHIDElementTypeInput_Button, cookie,
                                      IF cookie \in pressed THEN 0 ELSE 1))
                   ELSE hidQueue
    /\ RecordsAfterChange
    /\ UNCHANGED <<phase, twin, build, session, pc, drv, init>>
    /\ UNCHANGED stage

\* the driver queues an event that is not of the button type
EnqueueOther ==
    /\ phase = "live"
    /\ drv.queue = "Started"
    /\ hidQueue' = Enqueue(hidQueue, Event(kIOHIDElementTypeInput_Misc, 0, 0))
    /\ RecordsAfterChange
    /\ UNCHANGED <<phase, twin, build, session, pc, drv, pressed, init>>
    /\ UNCHANGED stage

(***************************************************************************)
(* The implicit destructor of the session: m_keys is destroyed, then       *)
(* m_pimpl lets go of the PrivateImpl.                                     *)
(***************************************************************************)
Destroy ==
    /\ phase = "live"
    /\ pc = "idle"
    /\ phase' = "destroyed"
    /\ twin' = "destroyed"
    /\ lastOp' = "~HelperForKeyboardReaderIOKit"
    /\ opCalls' = ResetPimpl(m_pimpl)
    /\ drv' = ApplyCalls(drv, opCalls', 1, Len(opCalls'))
    /\ m_pimpl' = NULL
    /\ m_keys' = EmptyKeys
    /\ errorLog' = <<>>
    /\ hidQueue' = <<>>
    /\ ret' = 0
    /\ retrieved' = <<>>
    /\ yielded' = <<>>
    /\ ioReturnValue' = kIOReturnError
    /\ UNCHANGED <<build, m_errorLoggerFunctor, m_queueEnabled, pc, pressed, init>>
    /\ UNCHANGED stage

Next ==
    \/ \E q \in BOOLEAN, f \in BOOLEAN, s \in Scripts : Construct(q, f, s)
    \/ \E failSet \in SUBSET FaultableCookies, garbage \in SUBSET FaultableCookies :
          garbage \subseteq failSet /\ CountOfCurrentlyDepressedKeys(failSet, garbage)
    \/ ReadFromQueue_Experimental
    \/ \E fault \in BOOLEAN : DrainStep(fault)
    \/ \E c \in PressableCookies :
          (Subscribed(c) => Len(hidQueue) < MaxPending) /\ KeyChange(c)
    \/ Len(hidQueue) < MaxPending /\ EnqueueOther
    \/ Destroy

Spec == Init /\ [][Next]_vars

\* _DEBUG compiles in DebugCheckErrorKeys only (lines 281-339), which the
\* drain loop never calls: progress of the loop is studied on the builds
\* without it
LiveInit == Init /\ DEBUG = FALSE

\* the running thread keeps executing the drain loop it has entered; nothing
\* obliges the driver to refuse a call
LiveSpec == LiveInit /\ [][Next]_vars /\ WF_vars(DrainStep(FALSE))

(***************************************************************************)
(* The stage functions run on their own.  PopulateVectorOfKeyInfo and      *)
(* FindKeypressCookies are private and Initialize calls each of them once, *)
(* after the handshake; StagesSpec starts where the handshake has ended    *)
(* and has FindKeypressCookies run as Initialize runs it, on the populated *)
(* table, taken one pass of its for loop at a time.                        *)
(***************************************************************************)
\* descriptors other than one more ordinary key: a second descriptor for
\* usage 4, a usage equal to the size of the table, no cookie, no usage, a
\* usage page that is not a number, another usage page, a negative usage,
\* usage 0, a null cookie, and the ignored key of usage 58
OddDescriptors ==
    <<Descriptor(Num(2004), Num(4), Num(kHIDPage_KeyboardOrKeypad)),
      Descriptor(Num(2165), Num(kHIDUsage_KeyboardExSel + 1),
                 Num(kHIDPage_KeyboardOrKeypad)),
      Descriptor(Absent, Num(50), Num(kHIDPage_KeyboardOrKeypad)),
      Descriptor(Num(2050), Absent, Num(kHIDPage_KeyboardOrKeypad)),
      Descriptor(Num(2050), Num(50), NonNumber),
      Descriptor(Num(2051), Num(51), Num(1)),
      Descriptor(Num(2052), Num(-1), Num(kHIDPage_KeyboardOrKeypad)),
      Descriptor(Num(CookieFor(0)), Num(0), Num(kHIDPage_KeyboardOrKeypad)),
      Descriptor(Num(0), Num(52), Num(kHIDPage_KeyboardOrKeypad)),
      Descriptor(Num(CookieFor(58)), Num(58), Num(kHIDPage_KeyboardOrKeypad))>>

\* the sequences of at most n odd descriptors taken from the i-th on, in
\* the order of OddDescriptors (repeats allowed): no two of them act on the
\* same key, so the other orders give the same table
RECURSIVE TailsFrom(_, _)
TailsFrom(i, n) ==
    IF n = 0 THEN {<<>>}
    ELSE {<<>>} \cup
         UNION {{<<OddDescriptors[j]>> \o t : t \in TailsFrom(j, n - 1)} :
                    j \in i..Len(OddDescriptors)}

\* 40 ordinary keys, then up to MaxTail odd descriptors, then possibly one
\* more ordinary key; and two reports of more than 40 keys of which some,
\* or all, are ignored keys
StageReports ==
    {Bulk(4, 43) \o m \o x : m \in TailsFrom(1, MaxTail),
                               x \in {<<>>, Bulk(44, 44)}}
    \cup {Bulk(1, 102), Bulk(58, 99)}

\* Initialize, lines 183-185, when FindKeyboard, CreatePluginInterface and
\* CreateDeviceInterface have all returned true: the PrivateImpl they leave
\* and the driver calls they made
HandshakeDone ==
    LET a == FindKeyboard(PrivateImpl, "found")
        b == CreatePluginInterface(a.pimpl, TRUE)
        c == CreateDeviceInterface(b.pimpl, TRUE, TRUE)
    IN [pimpl |-> c.pimpl, calls |-> a.calls \o b.calls \o c.calls]

\* the session as Initialize has it when it reaches line 186: the device
\* found, the plug-in created, the interface obtained and open
StagesInit ==
    /\ phase = "constructing"
    /\ NDEBUG \in BOOLEAN
    /\ DEBUG = FALSE
    /\ m_pimpl = HandshakeDone.pimpl
    /\ m_keys = EmptyKeys
    /\ m_errorLoggerFunctor \in BOOLEAN
    /\ m_queueEnabled = FALSE
    /\ pc = "idle"
    /\ ioReturnValue = kIOReturnError
    /\ drv = ApplyCalls(DrvInit, HandshakeDone.calls, 1,
                        Len(HandshakeDone.calls))
    /\ hidQueue = <<>>
    /\ pressed = {}
    /\ lastOp = "none"
    /\ ret = 0
    /\ opCalls = <<>>
    /\ errorLog = <<>>
    /\ retrieved = <<>>
    /\ yielded = <<>>
    /\ init = [basicSuccess |-> FALSE, failedStage |-> "none"]
    /\ elements = <<>>
    /\ elementIndex = 0
    /\ success = FALSE
    /\ twin = "constructing"

\* what no stage function touches
StageFrame ==
    UNCHANGED <<build, m_pimpl, m_errorLoggerFunctor, m_queueEnabled,
                ioReturnValue, drv, hidQueue, pressed, ret, retrieved,
                yielded, init>>

\* PopulateVectorOfKeyInfo, lines 942-1137
CallPopulateVectorOfKeyInfo ==
    /\ phase = "constructing"
    /\ pc = "idle"
    /\ \E r \in {PopulateVectorOfKeyInfo(m_keys, NDEBUG)} :
          /\ m_keys' = r.keys
          /\ success' = r.ok
          /\ phase' = IF r.asserted THEN "aborted" ELSE phase
          /\ twin' = IF r.asserted THEN "aborted" ELSE twin
    /\ lastOp' = "PopulateVectorOfKeyInfo"
    /\ opCalls' = <<>>
    /\ errorLog' = <<>>
    /\ StageFrame
    /\ UNCHANGED <<pc, elements, elementIndex>>

\* FindKeypressCookies, lines 733-747: copyMatchingElements, called through
\* m_pimpl->m_hidDeviceInterface, and its check; the two guards on m_keys
\* are the call order of Initialize (lines 183-187): after
\* PopulateVectorOfKeyInfo, once
EnterFindKeypressCookies(copyOk, report) ==
    /\ phase = "constructing"
    /\ pc = "idle"
    /\ Size(m_keys) # 0
    /\ \A u \in DOMAIN m_keys : m_keys[u].macCookieValue = 0
    /\ lastOp' = "FindKeypressCookies"
    /\ opCalls' = <<Call("copyMatchingElements", 0, copyOk)>>
    /\ elements' = IF copyOk THEN report ELSE <<>>
    /\ elementIndex' = 0
    /\ \E msgs \in {IF copyOk THEN <<>>
                     ELSE <<"copyMatchingElements failed. code: ">>} :
          /\ errorLog' =
                LogErrorWhenFunctorIsntEmpty(m_errorLoggerFunctor, msgs)
          /\ phase' = PhaseAfterLogging(m_errorLoggerFunctor, msgs, phase)
          /\ twin' = PhaseAfterLogging(~m_errorLoggerFunctor, msgs, twin)
    /\ pc' = "scan"
    /\ StageFrame
    /\ UNCHANGED <<m_keys, success>>

\* lines 748-828: one pass of the for loop
ScanStep ==
    /\ phase = "constructing"
    /\ pc = "scan"
    /\ elementIndex < Len(elements)
    /\ \E st \in {ScanDescriptor([keys |-> m_keys, msgs |-> <<>>,
                                    asserted |-> FALSE],
                                   elements[elementIndex + 1], NDEBUG)} :
          /\ m_keys' = st.keys
          /\ errorLog' = errorLog \o
                LogErrorWhenFunctorIsntEmpty(m_errorLoggerFunctor, st.msgs)
          /\ phase' = PhaseAfterLogging(m_errorLoggerFunctor, st.msgs,
                         IF st.asserted THEN "aborted" ELSE phase)
          /\ twin' = PhaseAfterLogging(~m_errorLoggerFunctor, st.msgs,
                         IF st.asserted THEN "aborted" ELSE twin)
    /\ elementIndex' = elementIndex + 1
    /\ StageFrame
    /\ UNCHANGED <<pc, lastOp, opCalls, elements, success>>

\* lines 831-851: the score, the release of the array and the result;
\* wildPointer as in FindKeypressCookies above
LeaveFindKeypressCookies(wildPointer) ==
    /\ phase = "constructing"
    /\ pc = "scan"
    /\ elementIndex = Len(elements)
    /\ success' = ScoreSucceeds(Score(m_keys))
    /\ phase' = IF ~opCalls[1].ok /\ wildPointer THEN "aborted" ELSE phase
    /\ twin' = IF ~opCalls[1].ok /\ wildPointer THEN "aborted" ELSE twin
    /\ pc' = "idle"
    /\ StageFrame
    /\ UNCHANGED <<m_keys, lastOp, opCalls, errorLog, elements, elementIndex>>

StagesNext ==
    \/ CallPopulateVectorOfKeyInfo
    \/ \E copyOk \in BOOLEAN, report \in StageReports :
          EnterFindKeypressCookies(copyOk, report)
    \/ ScanStep
    \/ \E wildPointer \in BOOLEAN : LeaveFindKeypressCookies(wildPointer)

StagesSpec == StagesInit /\ [][StagesNext]_vars

(***************************************************************************)
(* Properties.                                                             *)
(***************************************************************************)
InitializeFailed == phase = "live" /\ ~init.basicSuccess
InitializeSucceeded == phase = "live" /\ init.basicSuccess
CountReturned == phase = "live" /\ lastOp = "CountOfCurrentlyDepressedKeys"
DrainReturned ==
    phase = "live" /\ lastOp = "ReadFromQueue_Experimental" /\ pc = "idle"
Before(s, a, b) == FirstCall(s, a) # 0 /\ FirstCall(s, b) # 0
                   /\ FirstCall(s, a) < FirstCall(s, b)

\* C1: once Initialize has returned from a failed basic stage, the driver
\* has no device reference, plug-in object or device interface outstanding
\* and the session holds no PrivateImpl.
ThmC1_FailedInitHoldsNothing ==
    InitializeFailed =>
        /\ m_pimpl = NULL
        /\ drv.deviceRefs = 0
        /\ drv.plugIn \in {"none", "destroyed"}
        /\ drv.iface \in {"none", "released"}

\* the open of the device interface was refused, after the device, the
\* plug-in and the interface had been obtained, and the device was released
WitC1_OpenRefused ==
    /\ InitializeFailed
    /\ lastOp = "Initialize"
    /\ init.failedStage = "CreateDeviceInterface"
    /\ FirstOk(opCalls, "QueryInterface") # 0
    /\ Made(opCalls, "IOObjectRelease")

\* C2: on a session whose basic initialization failed, every
\* CountOfCurrentlyDepressedKeys returns a negative value without a driver
\* call, and the session never gets a PrivateImpl again.
ThmC2_FailedSessionCountNegative ==
    /\ (CountReturned /\ ~init.basicSuccess) => (ret < 0 /\ opCalls = <<>>)
    /\ InitializeFailed => CountBailsOut(m_pimpl)

\* a count on a failed session whose key table had been populated
WitC2_CountOnFailedSession ==
    /\ CountReturned
    /\ init.failedStage = "FindKeypressCookies"
    /\ ActiveIndices(m_keys) # {}
    /\ ret = -1

\* the keys that are bound, not ignored, and currently report a nonzero value
DepressedKeys ==
    {i \in DOMAIN m_keys :
        /\ m_keys[i].macCookieValue # 0
        /\ ~m_keys[i].mustBeIgnoredByOurApplication
        /\ m_keys[i].macCookieValue \in pressed}

\* C3: on a session whose basic initialization succeeded,
\* CountOfCurrentlyDepressedKeys returns exactly the number of bound,
\* non-ignored keys whose current driver value is nonzero.
CexC3_CountIsExact ==
    (CountReturned /\ init.basicSuccess) => ret = Cardinality(DepressedKeys)

\* C4: on a session whose basic initialization succeeded, the count lies
\* between 0 and the number of bound non-ignored keys, also after a failed
\* queue stage.
ThmC4_CountInRange ==
    (CountReturned /\ init.basicSuccess) =>
        (0 <= ret /\ ret <= Score(m_keys))

\* a count of one key on a session whose queue could not be set up
WitC4_CountAfterQueueFailure ==
    /\ CountReturned
    /\ init.basicSuccess
    /\ init.failedStage = "CreateQueue"
    /\ ret = 1

\* C5: the drain calls getNextEvent only if queueing was enabled and the
\* queue reached Started.
CexC5_DrainOnlyOnStartedQueue ==
    (lastOp = "ReadFromQueue_Experimental" /\ Made(opCalls, "getNextEvent"))
        => (m_queueEnabled /\ drv.queue = "Started")

\* C6: a drain that ends on kIOReturnUnderrun has handled exactly the events
\* getNextEvent handed out, in that order, one getNextEvent call per event
\* plus the final one, and has not invoked the logger.
ThmC6_DrainRetrievesAll ==
    (DrainReturned /\ ioReturnValue = kIOReturnUnderrun) =>
        /\ retrieved = yielded
        /\ Len(opCalls) <= MaxTrace => Len(retrieved) = Len(opCalls) - 1
        /\ errorLog = <<>>

\* three events, not all of the button type, then underrun
WitC6_ThreeEventsThenEmpty ==
    /\ DrainReturned
    /\ ioReturnValue = kIOReturnUnderrun
    /\ Len(retrieved) = 3
    /\ \E i \in 1..3 : retrieved[i].type # kIOHIDElementTypeInput_Button
    /\ \E i \in 1..3 : retrieved[i].type = kIOHIDElementTypeInput_Button

\* C7: a drain whose k-th getNextEvent is refused with a status other than
\* kIOReturnUnderrun has handled exactly the k-1 events before it; a drain
\* delivers a message to the (non-empty) logger iff it ended on a status
\* other than kIOReturnUnderrun.
ThmC7_DrainStopsOnError ==
    DrainReturned =>
        /\ (opCalls # <<>> /\ ioReturnValue # kIOReturnUnderrun
                /\ Len(opCalls) <= MaxTrace)
             => /\ Len(retrieved) = Len(opCalls) - 1
                /\ retrieved = yielded
                /\ \A i \in 1..Len(opCalls) : opCalls[i].ok <=> i < Len(opCalls)
        /\ (errorLog # <<>>) <=>
             (m_errorLoggerFunctor /\ opCalls # <<>>
                  /\ ioReturnValue # kIOReturnUnderrun)

\* the third getNextEvent is refused, two events were handled, one message
WitC7_ThirdCallRefused ==
    /\ DrainReturned
    /\ ioReturnValue = kIOReturnError
    /\ Len(opCalls) = 3
    /\ Len(retrieved) = 2
    /\ Len(errorLog) = 1

\* the step adds an event to the driver's queue: the driver queues an event
\* that is not of the button type, or a subscribed key changes; on a queue
\* that is full the oldest event is lost and the length stays the same
Enqueued ==
    \/ EnqueueOther
    \/ /\ hidQueue' # <<>>
       /\ \E c \in {hidQueue'[Len(hidQueue')].elementCookie} :
              Subscribed(c) /\ KeyChange(c)

\* C8 as stated: every drain call returns, whatever the driver enqueues.
CexC8_DrainAlwaysTerminates == (pc = "drain") ~> (pc = "idle")

\* C8 amended: every drain call returns provided the driver eventually
\* stops enqueuing events.
ThmC8_DrainTerminatesWhenQueueSettles ==
    (<>[][~Enqueued]_vars) => ((pc = "drain") ~> (pc = "idle"))

\* a drain that returned after handling more events than can be pending at
\* once: at least one arrived while the loop was running
WitC8_DrainOutlastsArrivals ==
    /\ DrainReturned
    /\ ioReturnValue = kIOReturnUnderrun
    /\ Len(retrieved) > MaxPending

\* C9: tearing down a session that holds a queue stops and releases the
\* queue first, then closes and releases the device interface, then
\* destroys the plug-in object, then releases the device reference.
CexC9_TeardownQueueFirst ==
    (lastOp = "~HelperForKeyboardReaderIOKit"
        /\ Made(opCalls, "IOHIDQueueInterface::Release")) =>
        /\ Before(opCalls, "IOHIDQueueInterface::Release", "close")
        /\ Before(opCalls, "close", "IOHIDDeviceInterface::Release")
        /\ Before(opCalls, "IOHIDDeviceInterface::Release", "IODestroyPlugInInterface")
        /\ Before(opCalls, "IODestroyPlugInInterface", "IOObjectRelease")

\* C10: when a basic stage fails, what had been acquired is released within
\* Initialize, the device interface before the plug-in object before the
\* device reference, each after the last acquisition.
ThmC10_FailedInitReleasesInReverse ==
    (InitializeFailed /\ lastOp = "Initialize") =>
        /\ FirstOk(opCalls, "IOServiceGetMatchingService") # 0
             => FirstCall(opCalls, "IOObjectRelease")
                    > FirstOk(opCalls, "IOServiceGetMatchingService")
        /\ FirstOk(opCalls, "IOCreatePlugInInterfaceForService") # 0
             => /\ FirstCall(opCalls, "IODestroyPlugInInterface")
                    > FirstOk(opCalls, "IOCreatePlugInInterfaceForService")
                /\ Before(opCalls, "IODestroyPlugInInterface", "IOObjectRelease")
        /\ FirstOk(opCalls, "QueryInterface") # 0
             => /\ FirstCall(opCalls, "IOHIDDeviceInterface::Release")
                    > FirstOk(opCalls, "QueryInterface")
                /\ Before(opCalls, "IOHIDDeviceInterface::Release",
                          "IODestroyPlugInInterface")

\* the resolution fell short with all three resources acquired and released
WitC10_ShortfallReleasesAll ==
    /\ InitializeFailed
    /\ lastOp = "Initialize"
    /\ init.failedStage = "FindKeypressCookies"
    /\ FirstOk(opCalls, "copyMatchingElements") # 0
    /\ Made(opCalls, "IOHIDDeviceInterface::Release")
    /\ Made(opCalls, "IODestroyPlugInInterface")
    /\ Made(opCalls, "IOObjectRelease")

(***************************************************************************)
(* Properties of the stage functions, stated of StagesSpec.                *)
(***************************************************************************)
\* FindKeypressCookies has returned to its caller
FindReturned ==
    phase = "constructing" /\ pc = "idle" /\ lastOp = "FindKeypressCookies"

\* a descriptor with a number for each of cookie, usage and usage page
ValidDescriptor(e) ==
    /\ e.cookie.present /\ e.cookie.isNumber
    /\ e.usage.present /\ e.usage.isNumber
    /\ e.usagePage.present /\ e.usagePage.isNumber

\* the keys of the table that hold a handle and are not ignored
BoundNotIgnored ==
    {u \in DOMAIN m_keys : /\ m_keys[u].macCookieValue # 0
                           /\ ~m_keys[u].mustBeIgnoredByOurApplication}

\* C11: FindKeypressCookies returns true exactly when more than 40 keys are
\* bound and not ignored after the scan, and returns false whenever the
\* report held 40 valid descriptors or fewer.
ThmC11_SuccessIffMoreThanForty ==
    FindReturned =>
        /\ success <=> Cardinality(BoundNotIgnored) > 40
        /\ Cardinality({i \in DOMAIN elements : ValidDescriptor(elements[i])})
               <= 40 => ~success

\* a report of exactly 40 valid descriptors: 40 keys bound, and failure
WitC11_FortyBoundFails ==
    /\ FindReturned
    /\ Cardinality({i \in DOMAIN elements : ValidDescriptor(elements[i])}) = 40
    /\ Cardinality(BoundNotIgnored) = 40
    /\ ~success

\* every descriptor of the report is valid and of the keyboard page, no two
\* share a usage code, and every usage code is an index of the table
KeyboardReport ==
    /\ \A i \in DOMAIN elements :
          /\ ValidDescriptor(elements[i])
          /\ elements[i].usagePage.value = 7
          /\ elements[i].usage.value \in DOMAIN m_keys
    /\ \A i, j \in DOMAIN elements :
          elements[i].usage.value = elements[j].usage.value => i = j

\* every descriptor of the report carries a handle, for a key that the
\* table does not mark ignored
ReportOfCountedKeys ==
    \A i \in DOMAIN elements :
        /\ elements[i].cookie.value # 0
        /\ ~m_keys[elements[i].usage.value].mustBeIgnoredByOurApplication

\* C12 as stated: a report of N > 40 distinct valid keyboard-page descriptors
\* with unique in-range usage codes gives success and exactly N non-ignored
\* keys with bound handles.
CexC12_EveryDescriptorCounts ==
    (FindReturned /\ KeyboardReport /\ Len(elements) > 40) =>
        /\ success
        /\ Cardinality(BoundNotIgnored) = Len(elements)

\* C12 amended: the same, for reports whose descriptors all carry a nonzero
\* handle and name keys that the table does not mark ignored; each of
\* these keys then holds the handle of its descriptor.
ThmC12_EveryCountedDescriptorCounts ==
    (FindReturned /\ KeyboardReport /\ ReportOfCountedKeys
        /\ Len(elements) > 40) =>
        /\ success
        /\ Cardinality(BoundNotIgnored) = Len(elements)
        /\ \A i \in DOMAIN elements :
              m_keys[elements[i].usage.value].macCookieValue
                  = elements[i].cookie.value

\* a report of 41 such descriptors was resolved
WitC12_FortyOneCounted ==
    /\ FindReturned
    /\ KeyboardReport
    /\ ReportOfCountedKeys
    /\ Len(elements) = 41
    /\ success

\* the descriptors the loop has been through that could bind key u: valid,
\* of the keyboard page, of usage u, with a nonzero handle
BindersOf(u) ==
    {i \in 1..elementIndex :
        /\ ValidDescriptor(elements[i])
        /\ elements[i].usagePage.value = 7
        /\ elements[i].usage.value = u
        /\ elements[i].cookie.value # 0}

\* the least element of a non-empty set of numbers
Least(S) == CHOOSE i \in S : \A j \in S : i <= j

\* C13: with asserts compiled out, no step of the scan changes a key that
\* already holds a handle, whatever the descriptor reports, and the number
\* of bound non-ignored keys is at most the number of usage codes reported.
ThmC13_FirstBindingWins ==
    /\ [][(NDEBUG /\ pc = "scan") =>
            \A u \in DOMAIN m_keys :
                m_keys[u].macCookieValue # 0 => m_keys'[u] = m_keys[u]]_vars
    /\ [](lastOp = "FindKeypressCookies" =>
            Cardinality(BoundNotIgnored) <=
                Cardinality({elements[i].usage.value : i \in
                    {j \in 1..elementIndex : ValidDescriptor(elements[j])}}))

\* two descriptors reported usage 4 with different handles; the key holds
\* the first one, and the 41 descriptors scored 40
WitC13_SecondDescriptorForUsageFour ==
    /\ NDEBUG
    /\ FindReturned
    /\ Cardinality(BindersOf(4)) = 2
    /\ \E j \in BindersOf(4) :
          elements[j].cookie.value # m_keys[4].macCookieValue
    /\ m_keys[4].macCookieValue = elements[Least(BindersOf(4))].cookie.value
    /\ Len(elements) = 41
    /\ Cardinality(BoundNotIgnored) = 40
    /\ ~success

\* a valid keyboard-page descriptor whose usage code is greater than every
\* index of the table
BeyondTable(e) ==
    /\ ValidDescriptor(e)
    /\ e.usagePage.value = 7
    /\ \A u \in DOMAIN m_keys : e.usage.value > u

\* C14: the pass of the loop over a keyboard-page descriptor whose usage
\* code is greater than the largest index of the table changes no key (so
\* binds nothing and leaves the score as it was), reports no error, ends
\* nothing, and moves on to the next descriptor.
ThmC14_BeyondTableIgnored ==
    [][(pc = "scan" /\ elementIndex < Len(elements)
            /\ BeyondTable(elements[elementIndex + 1])) =>
        /\ m_keys' = m_keys
        /\ errorLog' = errorLog
        /\ phase' = phase
        /\ pc' = "scan"
        /\ elementIndex' = elementIndex + 1]_vars

\* the 41st descriptor was past the table, the 42nd was bound after it and
\* brought the score to 41; the session has a logger and logged nothing
WitC14_BoundAfterBeyondTable ==
    /\ FindReturned
    /\ m_errorLoggerFunctor
    /\ Len(elements) = 42
    /\ BeyondTable(elements[41])
    /\ m_keys[44].macCookieValue = elements[42].cookie.value
    /\ Cardinality(BoundNotIgnored) = 41
    /\ errorLog = <<>>
    /\ success

\* PopulateVectorOfKeyInfo has returned true
PopulateSucceeded ==
    phase = "constructing" /\ lastOp = "PopulateVectorOfKeyInfo" /\ success

\* C15 as stated: a populated key table has exactly 250 entries.
CexC15_TableOfTwoHundredFifty ==
    m_keys # EmptyKeys => Cardinality(DOMAIN m_keys) = 250

\* C15 amended: a populated key table has exactly 165 entries, at the
\* indices 0 to 164, counting the placeholder at index 0; the entry at
\* index u has usage id u.
ThmC15_TableOfOneHundredSixtyFive ==
    m_keys # EmptyKeys =>
        /\ Cardinality(DOMAIN m_keys) = 165
        /\ DOMAIN m_keys = 0..164
        /\ \A u \in DOMAIN m_keys : m_keys[u].usbOfficialUsageID = u

\* the table right after the call that populated it
WitC15_JustPopulated ==
    /\ PopulateSucceeded
    /\ m_keys # EmptyKeys
    /\ m_keys[0].usbOfficialUsageID = 0
    /\ 164 \in DOMAIN m_keys

\* C16: in every populated key table the entry at index 0 is marked
\* ignored, and it is never among the keys counted toward the threshold.
CexC16_PlaceholderIgnored ==
    m_keys # EmptyKeys =>
        /\ m_keys[0].mustBeIgnoredByOurApplication
        /\ 0 \notin BoundNotIgnored

\* C17: a call of PopulateVectorOfKeyInfo on a table that is already
\* populated leaves every entry as it was (size, ids, ignore flags, handles)
\* and fails: it returns false, or ends the process at the assert when
\* asserts are compiled in.
ThmC17_SecondPopulateRefused ==
    [][(pc = "idle" /\ lastOp' = "PopulateVectorOfKeyInfo"
            /\ m_keys # EmptyKeys) =>
        /\ m_keys' = m_keys
        /\ success' = FALSE
        /\ phase' = IF NDEBUG THEN phase ELSE "aborted"]_vars

\* the function was called again after the scan had bound handles; it
\* returned false and the handles are still there
WitC17_RefusedWithHandlesBound ==
    /\ phase = "constructing"
    /\ NDEBUG
    /\ lastOp = "PopulateVectorOfKeyInfo"
    /\ ~success
    /\ Cardinality(DOMAIN m_keys) = 165
    /\ Cardinality(BoundNotIgnored) > 40

\* C19: the pass of the loop over a descriptor that lacks a number for the
\* cookie, the usage code or the usage page binds nothing and does not
\* invoke the error logger.
CexC19_MalformedSkippedSilently ==
    [][(pc = "scan" /\ elementIndex < Len(elements)
            /\ ~ValidDescriptor(elements[elementIndex + 1])) =>
        /\ m_keys' = m_keys
        /\ errorLog' = errorLog]_vars

(***************************************************************************)
(* Properties of the session about ignored keys and about the logger.      *)
(***************************************************************************)
\* the handles held by the keys marked ignored (0 for those left unbound)
IgnoredCookies ==
    {m_keys[u].macCookieValue :
        u \in {v \in DOMAIN m_keys : m_keys[v].mustBeIgnoredByOurApplication}}

\* the usages DebugCheckErrorKeys polls, in the order of its four calls
DebugCheckedUsages ==
    <<kHIDUsage_KeyboardErrorRollOver, kHIDUsage_KeyboardPOSTFail,
      kHIDUsage_KeyboardErrorUndefined, kHIDUsage_KeyboardPower>>

\* C18 as stated: no getElementValue and no addElement call is ever made
\* with the handle of a key marked ignored, in any build.
CexC18_IgnoredNeverPolled ==
    \E ignored \in {IgnoredCookies} :
        \A k \in DOMAIN opCalls :
            opCalls[k].fn \in {"getElementValue", "addElement"}
                => opCalls[k].arg \notin ignored

\* C18 amended: no addElement call is made with the handle of an ignored
\* key; the only getElementValue calls made with one are the four calls of
\* DebugCheckErrorKeys at the start of CountOfCurrentlyDepressedKeys in a
\* _DEBUG build; and a session whose initialization succeeded has more
\* than 40 keys that are bound and not ignored.
ThmC18_IgnoredPolledOnlyByDebugCheck ==
    /\ \E ignored \in {IgnoredCookies} :
          \A k \in DOMAIN opCalls :
              /\ opCalls[k].fn = "addElement" => opCalls[k].arg \notin ignored
              /\ (opCalls[k].fn = "getElementValue"
                      /\ opCalls[k].arg \in ignored) =>
                    /\ DEBUG
                    /\ lastOp = "CountOfCurrentlyDepressedKeys"
                    /\ k <= Len(DebugCheckedUsages)
                    /\ opCalls[k].arg =
                          m_keys[DebugCheckedUsages[k]].macCookieValue
    /\ InitializeSucceeded => Cardinality(BoundNotIgnored) > 40

\* the driver reported elements for ignored keys (usages 1 to 3 and 58 among
\* them) and the queue is enabled; a count in a _DEBUG build polled the
\* four error keys and then only the bound keys that are not ignored
WitC18_DebugCountWithIgnoredBound ==
    /\ CountReturned
    /\ InitializeSucceeded
    /\ DEBUG
    /\ m_queueEnabled
    /\ opCalls # <<>>
    /\ m_keys[58].macCookieValue # 0
    /\ opCalls[1] = Call("getElementValue", m_keys[1].macCookieValue, TRUE)
    /\ m_keys[1].macCookieValue # 0
    /\ Len(opCalls) = Len(DebugCheckedUsages) + Cardinality(BoundNotIgnored)
    /\ Cardinality(drv.elements) = Cardinality(BoundNotIgnored)

\* C20: the session and its twin, which get the same driver answers and the
\* same calls but the opposite choice of error logger, are at every moment
\* in the same phase of their lives: each operation completes in one
\* exactly when it completes in the other, so stages, handles, driver
\* calls, counts and drained events, which are computed without reading
\* the functor, are the same; and a session without a logger reports
\* nothing.
ThmC20_LoggerChangesOnlyReporting ==
    /\ twin = phase
    /\ ~m_errorLoggerFunctor => errorLog = <<>>

\* a drain on a session with a logger ended with a report to the logger;
\* the twin, which has no logger, came through the same drain alive
WitC20_ReportedDrainTwinAlive ==
    /\ DrainReturned
    /\ m_errorLoggerFunctor
    /\ errorLog # <<>>
    /\ twin = "live"

(***************************************************************************)
(* Properties of the order of the initialization stages and of the queue.  *)
(***************************************************************************)
\* the driver calls that move or fill the queue
QueueSteps == {"allocQueue", "create", "start", "addElement"}

\* the number of calls of that name in a sequence of driver calls
Times(s, name) == Cardinality({k \in DOMAIN s : s[k].fn = name})

\* call a was made, succeeded, and came before the first call b
OkBefore(s, a, b) == FirstOk(s, a) # 0 /\ FirstOk(s, a) < FirstCall(s, b)

\* C21: within Initialize the queue moves only along Unallocated ->
\* Allocated -> Created -> Started: create is called only after allocQueue
\* gave a queue, start only after create succeeded, addElement only after
\* start succeeded, each of the three at most once, and a refused
\* allocQueue, create or start is followed by no further queue call.
ThmC21_QueueAdvancesInOrder ==
    lastOp = "Initialize" =>
        /\ Made(opCalls, "create") => OkBefore(opCalls, "allocQueue", "create")
        /\ Made(opCalls, "start") => OkBefore(opCalls, "create", "start")
        /\ Made(opCalls, "addElement") => OkBefore(opCalls, "start", "addElement")
        /\ \A name \in {"allocQueue", "create", "start"} :
              Times(opCalls, name) <= 1
        /\ \A k \in DOMAIN opCalls :
              (opCalls[k].fn \in {"allocQueue", "create", "start"}
                  /\ ~opCalls[k].ok) =>
                 \A j \in (k + 1)..Len(opCalls) : opCalls[j].fn \notin QueueSteps
        /\ drv.queue =
              IF FirstOk(opCalls, "start") # 0 THEN "Started"
              ELSE IF FirstOk(opCalls, "create") # 0 THEN "Created"
              ELSE IF FirstOk(opCalls, "allocQueue") # 0 THEN "Allocated"
              ELSE "Unallocated"

\* the driver gave a queue and refused create: the queue stays Allocated,
\* and neither start nor addElement was called
WitC21_CreateRefused ==
    /\ lastOp = "Initialize"
    /\ phase = "live"
    /\ FirstOk(opCalls, "allocQueue") # 0
    /\ Made(opCalls, "create")
    /\ FirstOk(opCalls, "create") = 0
    /\ ~Made(opCalls, "start")
    /\ ~Made(opCalls, "addElement")
    /\ drv.queue = "Allocated"

\* the positions of the addElement calls among the calls of the operation
AddElementCalls == {k \in DOMAIN opCalls : opCalls[k].fn = "addElement"}

\* C22: addElement is called only by Initialize, only after start
\* succeeded, only with the handle of a key that is bound and not ignored,
\* and at most once with each; when Initialize returns after the queue was
\* started, it has been called exactly once for each such key.
ThmC22_OneAddElementPerCountedKey ==
    \E adds \in {AddElementCalls}, counted \in {BoundNotIgnored} :
        /\ adds # {} =>
              /\ lastOp = "Initialize"
              /\ FirstOk(opCalls, "start") # 0
              /\ \A k \in adds : k > FirstOk(opCalls, "start")
        /\ \A k \in adds :
              \E u \in counted : m_keys[u].macCookieValue = opCalls[k].arg
        /\ \A u \in counted :
              Cardinality({k \in adds :
                  opCalls[k].arg = m_keys[u].macCookieValue}) <= 1
        /\ (lastOp = "Initialize" /\ phase = "live"
                /\ FirstOk(opCalls, "start") # 0) =>
              \A u \in counted :
                  \E k \in adds : opCalls[k].arg = m_keys[u].macCookieValue

\* the driver reported the usages 1 to 102, ignored keys among them; the
\* queue was started and the 56 keys that are not ignored were subscribed
WitC22_FiftySixSubscribed ==
    /\ lastOp = "Initialize"
    /\ phase = "live"
    /\ FirstOk(opCalls, "start") # 0
    /\ m_keys # EmptyKeys
    /\ m_keys[58].macCookieValue # 0
    /\ Cardinality(AddElementCalls) = 56
    /\ Cardinality(BoundNotIgnored) = 56
    /\ Cardinality(drv.elements) = 56

\* the stages of Initialize in the order of lines 183-187 and 202-203
StageOrder ==
    <<"FindKeyboard", "CreatePluginInterface", "CreateDeviceInterface",
      "PopulateVectorOfKeyInfo", "FindKeypressCookies", "CreateQueue",
      "AddElementsToQueue">>

\* the place in StageOrder of the stage that makes a driver call, 0 for the
\* calls made by no stage (the releases of ~PrivateImpl)
StageOf(fn) ==
    CASE fn \in {"IOServiceMatching", "CFNumberCreate",
                 "IOServiceGetMatchingService"} -> 1
      [] fn = "IOCreatePlugInInterfaceForService" -> 2
      [] fn \in {"QueryInterface", "open"} -> 3
      [] fn = "copyMatchingElements" -> 5
      [] fn \in {"allocQueue", "create", "start"} -> 6
      [] fn = "addElement" -> 7
      [] OTHER -> 0

\* the place in StageOrder of a stage, by name
StageNumber(name) == CHOOSE n \in DOMAIN StageOrder : StageOrder[n] = name

\* C23: the driver calls of Initialize come stage by stage in the order
\* FindKeyboard, CreatePluginInterface, CreateDeviceInterface,
\* (PopulateVectorOfKeyInfo,) FindKeypressCookies, CreateQueue,
\* AddElementsToQueue; after a refused call no call of a later stage is
\* made, and none of the same stage except the second CFNumberCreate of
\* FindKeyboard and further addElement calls; no
\* call belongs to a stage after the one that failed; the table is populated
\* only after the interface was opened and before copyMatchingElements; the
\* queue stages run only when queueing is enabled.
ThmC23_StagesInOrderUntilFailure ==
    lastOp = "Initialize" =>
        \E staged \in {SelectSeq(opCalls, LAMBDA c : StageOf(c.fn) # 0)} :
            /\ \A k \in 1..(Len(staged) - 1) :
                  /\ StageOf(staged[k].fn) <= StageOf(staged[k + 1].fn)
                  /\ ~staged[k].ok =>
                        /\ staged[k + 1].fn = staged[k].fn
                        /\ staged[k].fn \in {"CFNumberCreate", "addElement"}
            /\ init.failedStage # "none" =>
                  \A k \in DOMAIN staged :
                      StageOf(staged[k].fn) <= StageNumber(init.failedStage)
            /\ m_keys # EmptyKeys => FirstOk(opCalls, "open") # 0
            /\ Made(opCalls, "copyMatchingElements") => m_keys # EmptyKeys
            /\ ~m_queueEnabled =>
                  \A k \in DOMAIN staged : StageOf(staged[k].fn) < 6

\* with queueing enabled the plug-in was refused: the calls of the first
\* two stages were made and nothing of the later ones; the table was never
\* populated
WitC23_StoppedAtPlugIn ==
    /\ lastOp = "Initialize"
    /\ m_queueEnabled
    /\ init.failedStage = "CreatePluginInterface"
    /\ FirstOk(opCalls, "IOServiceGetMatchingService") # 0
    /\ Made(opCalls, "IOCreatePlugInInterfaceForService")
    /\ \A k \in DOMAIN opCalls : StageOf(opCalls[k].fn) <= 2
    /\ m_keys = EmptyKeys

\* C24: the entry at index 0 of a populated table never holds a handle,
\* whatever descriptors the driver reports.
CexC24_PlaceholderNeverBound ==
    m_keys # EmptyKeys => m_keys[0].macCookieValue = 0

(***************************************************************************)
(* Properties of the key table over the whole session.                     *)
(***************************************************************************)
\* lines 748-828 run on a freshly populated table: no pass of the for loop
\* over the report changes a key that already holds a handle
WriteOnceScan(report, ndbg) ==
    \A n \in 1..Len(report) :
        Bind(ScanElements([keys |-> PopulateVectorOfKeyInfo(EmptyKeys, ndbg).keys,
                           msgs |-> <<>>, asserted |-> FALSE],
                          report, 1, n - 1, ndbg),
             LAMBDA before :
                Bind(ScanDescriptor(before, report[n], ndbg),
                     LAMBDA after :
                        \/ before.asserted
                        \/ \A u \in DOMAIN before.keys :
                              before.keys[u].macCookieValue # 0 =>
                                  after.keys[u] = before.keys[u]))

\* C25: a key's handle is written at most once in a session: in the scan
\* of every report the session may be given, no descriptor changes a key
\* that already holds a handle, and once the table is built no operation
\* before the destructor changes any of it.
ThmC25_HandleWrittenOnce ==
    /\ [](phase = "unborn" =>
            \A report \in Reports : WriteOnceScan(report, NDEBUG))
    /\ [][(m_keys # EmptyKeys /\ phase' # "destroyed") =>
            m_keys' = m_keys]_vars

\* after a poll and a drain that yielded a key, key 4 still holds the handle
\* the report gave it and the 41 reported keys are still the bound ones
WitC25_TableAsBuiltAfterDrain ==
    /\ phase = "live"
    /\ lastOp = "ReadFromQueue_Experimental"
    /\ pc = "idle"
    /\ yielded # <<>>
    /\ Size(m_keys) = 165
    /\ m_keys[4].macCookieValue = CookieFor(4)
    /\ Score(m_keys) = 41

(***************************************************************************)
(* Properties of the failures of single driver calls.                      *)
(***************************************************************************)
\* Initialize was the last operation and the driver refused its open call
OpenRefused ==
    /\ lastOp = "Initialize"
    /\ \E k \in DOMAIN opCalls : opCalls[k].fn = "open" /\ ~opCalls[k].ok

\* C26: when the device interface was obtained and its open is refused,
\* CreateDeviceInterface is the stage that failed, basic initialization
\* failed (no table, no resolution, no queue, no PrivateImpl kept, both
\* failures logged when there is a logger), and the interface obtained was
\* released after the refused open.
ThmC26_RefusedOpenFailsAndReleases ==
    OpenRefused =>
        /\ FirstOk(opCalls, "QueryInterface") # 0
        /\ FirstOk(opCalls, "QueryInterface") < FirstCall(opCalls, "open")
        /\ init.failedStage = "CreateDeviceInterface"
        /\ ~init.basicSuccess
        /\ m_pimpl = NULL
        /\ m_keys = EmptyKeys
        /\ ~Made(opCalls, "copyMatchingElements")
        /\ \A k \in DOMAIN opCalls : opCalls[k].fn \notin QueueSteps
        /\ FirstCall(opCalls, "open") <
               FirstCall(opCalls, "IOHIDDeviceInterface::Release")
        /\ drv.iface = "released"
        /\ m_errorLoggerFunctor =>
               errorLog = <<"Failed to open the IOHIDDeviceInterface. Failed with value ",
                            "Failed basic keyboard initialization.">>

\* a session with a logger and the queue asked for, whose open was refused:
\* two messages were logged and the driver has the interface back
WitC26_OpenRefusedWithLogger ==
    /\ OpenRefused
    /\ phase = "live"
    /\ m_errorLoggerFunctor
    /\ m_queueEnabled
    /\ Len(errorLog) = 2
    /\ drv.iface = "released"
    /\ Made(opCalls, "close")

\* the last operation was a poll in which the driver refused the
\* getElementValue of a bound key that is not ignored
GetElementValueRefused ==
    /\ lastOp = "CountOfCurrentlyDepressedKeys"
    /\ \E k \in DOMAIN opCalls, i \in ActiveIndices(m_keys) :
          /\ opCalls[k].fn = "getElementValue"
          /\ ~opCalls[k].ok
          /\ opCalls[k].arg = m_keys[i].macCookieValue

\* C27: a poll in which getElementValue was refused for a bound non-ignored
\* key ends the process and returns no count.
CexC27_RefusedValueIsFatal ==
    GetElementValueRefused => phase = "aborted"

(***************************************************************************)
(* Properties of the construction of the key table in a session.           *)
(***************************************************************************)
\* the stages of Initialize that come before PopulateVectorOfKeyInfo
StagesBeforePopulate ==
    {"FindKeyboard", "CreatePluginInterface", "CreateDeviceInterface"}

\* the table holds the 165 entries of lines 954-1120, each at its usage id
TableComplete ==
    /\ Size(m_keys) = 165
    /\ \A u \in DOMAIN m_keys : m_keys[u].usbOfficialUsageID = u

\* C28 as stated: every session that came out of its constructor has built
\* the key table.
CexC28_EverySessionBuildsTheTable ==
    phase = "live" => TableComplete

\* C28: the key table is built at most once in a session, by Initialize
\* in the constructor, and only the destructor empties it; it is built
\* exactly when the three stages before PopulateVectorOfKeyInfo succeeded,
\* and it is complete whenever copyMatchingElements has been called.
ThmC28_TableBuiltOnceBeforeResolution ==
    /\ [][m_keys' # m_keys =>
            \/ /\ phase = "unborn"
               /\ lastOp' = "Initialize"
               /\ m_keys = EmptyKeys
               /\ Size(m_keys') = 165
            \/ /\ phase' = "destroyed"
               /\ m_keys' = EmptyKeys]_vars
    /\ [][phase # "unborn" => lastOp' # "Initialize"]_vars
    /\ [](phase = "live" =>
            IF init.failedStage \in StagesBeforePopulate
            THEN m_keys = EmptyKeys
            ELSE TableComplete)
    /\ []((lastOp = "Initialize" /\ Made(opCalls, "copyMatchingElements"))
            => TableComplete)

\* the table was built and the resolution that followed bound 40 of its
\* keys, one short of success
WitC28_BuiltThenResolvedForty ==
    /\ phase = "live"
    /\ lastOp = "Initialize"
    /\ init.failedStage = "FindKeypressCookies"
    /\ FirstOk(opCalls, "copyMatchingElements") # 0
    /\ TableComplete
    /\ Score(m_keys) = 40

(***************************************************************************)
(* Properties of a refused subscription and of the error logger.           *)
(***************************************************************************)
\* the handles of the keys the loops of the session work on
ActiveCookies == {m_keys[i].macCookieValue : i \in ActiveIndices(m_keys)}

\* the handles the driver refused to add in the calls of the last operation
RefusedAdds ==
    {opCalls[k].arg : k \in {j \in DOMAIN opCalls :
                                opCalls[j].fn = "addElement" /\ ~opCalls[j].ok}}

\* Initialize was the last operation, in a build without asserts, and the
\* driver refused an addElement
AddElementRefused ==
    /\ NDEBUG
    /\ lastOp = "Initialize"
    /\ RefusedAdds # {}

\* C29: with asserts compiled out, after a refused addElement every bound
\* non-ignored key has still been offered, nothing but addElement calls
\* follow the first one, the driver still holds every accepted
\* subscription on the started queue, AddElementsToQueue is the stage that
\* failed, and the queue failure is logged when there is a logger; the
\* subscriptions stay for as long as the session lives.
ThmC29_RefusedAddKeepsTheOthers ==
    /\ AddElementRefused =>
          /\ {opCalls[k].arg : k \in AddElementCalls} = ActiveCookies
          /\ \A k \in DOMAIN opCalls :
                k > FirstCall(opCalls, "addElement") =>
                    opCalls[k].fn = "addElement"
          /\ drv.elements = ActiveCookies \ RefusedAdds
          /\ drv.queue = "Started"
          /\ init.failedStage = "AddElementsToQueue"
          /\ init.basicSuccess
          /\ m_pimpl # NULL
          /\ IF m_errorLoggerFunctor
             THEN /\ errorLog # <<>>
                  /\ errorLog[Len(errorLog)] =
                        "Failed basic keyboard input queue initialization."
             ELSE errorLog = <<>>
    /\ (NDEBUG /\ phase = "live" /\ init.failedStage = "AddElementsToQueue") =>
          /\ drv.queue = "Started"
          /\ drv.elements \subseteq ActiveCookies
          /\ Cardinality(drv.elements) = Score(m_keys) - 1

\* the second key offered was refused: the first is subscribed, so are the
\* 39 offered after the refusal, and the logger got the message
WitC29_SecondKeyRefused ==
    /\ AddElementRefused
    /\ phase = "live"
    /\ m_errorLoggerFunctor
    /\ RefusedAdds = {CookieFor(5)}
    /\ CookieFor(4) \in drv.elements
    /\ Cardinality(drv.elements) = 40
    /\ Len(errorLog) = 1

\* the last operation met one of the failures the session reports: a basic
\* stage of Initialize failed and Initialize returned (device not found,
\* plug-in, interface or open refused, too few keys resolved), the driver
\* refused a call of the queue stages, or a drain was ended by a status
\* other than kIOReturnUnderrun
ReportableFailure ==
    \/ /\ lastOp = "Initialize"
       /\ \/ init.failedStage \in StagesBeforePopulate
          \/ init.failedStage = "FindKeypressCookies" /\ phase = "live"
          \/ \E k \in DOMAIN opCalls :
                opCalls[k].fn \in QueueSteps /\ ~opCalls[k].ok
    \/ /\ lastOp = "ReadFromQueue_Experimental"
       /\ pc = "idle"
       /\ opCalls # <<>>
       /\ ioReturnValue # kIOReturnUnderrun

\* C30: on a session that was given a logger, an operation that met a
\* reportable failure has invoked the logger at least once.
CexC30_EveryFailureLogged ==
    (m_errorLoggerFunctor /\ ReportableFailure) => errorLog # <<>>

(***************************************************************************)
(* Properties of the drain and of the table's order.                       *)
(***************************************************************************)
\* the step is a pass of the drain loop whose getNextEvent hands out an
\* event that is not of the button type
OtherEventHandedOut ==
    /\ pc = "drain"
    /\ hidQueue # <<>>
    /\ Head(hidQueue).type # kIOHIDElementTypeInput_Button
    /\ hidQueue' = Tail(hidQueue)
    /\ ioReturnValue' = kIOReturnSuccess

\* C31: a pass of the drain loop that gets an event not of the button type
\* stays in the loop, logs nothing and ends nothing; and a drain that was
\* handed such an event has still handled every event handed out after it,
\* stopping only at a status other than kIOReturnSuccess.
ThmC31_OtherEventNotFatal ==
    /\ [][OtherEventHandedOut =>
            /\ pc' = "drain"
            /\ errorLog' = errorLog
            /\ phase' = phase
            /\ hidQueue' = Tail(hidQueue)]_vars
    /\ []((DrainReturned /\ Len(opCalls) <= MaxTrace
              /\ \E i \in DOMAIN yielded :
                    yielded[i].type # kIOHIDElementTypeInput_Button) =>
            /\ retrieved = yielded
            /\ Len(retrieved) = Len(opCalls) - 1
            /\ ioReturnValue # kIOReturnSuccess
            /\ (errorLog # <<>> => ioReturnValue # kIOReturnUnderrun))

\* the first event of the drain was not of the button type, a key event
\* came after it and was handled, and the drain ended on an empty queue
\* without a message
WitC31_KeyAfterOtherEvent ==
    /\ DrainReturned
    /\ ioReturnValue = kIOReturnUnderrun
    /\ Len(retrieved) >= 2
    /\ retrieved[1].type # kIOHIDElementTypeInput_Button
    /\ retrieved[2].type = kIOHIDElementTypeInput_Button
    /\ errorLog = <<>>

\* a descriptor with three numbers, of the keyboard page, whose usage code
\* is an index of the table
InRangeDescriptor(e) ==
    /\ ValidDescriptor(e)
    /\ e.usagePage.value = kHIDPage_KeyboardOrKeypad
    /\ e.usage.value \in DOMAIN m_keys

\* C32: the entry at every index i of the table has usage id i, and the
\* pass of the loop over an in-range keyboard-page descriptor of usage u
\* changes no entry but the one with id u, which takes the descriptor's
\* handle if it held none.
ThmC32_TableIndexedById ==
    /\ [](\A i \in DOMAIN m_keys : m_keys[i].usbOfficialUsageID = i)
    /\ [][(pc = "scan" /\ elementIndex < Len(elements)
             /\ InRangeDescriptor(elements[elementIndex + 1])) =>
            /\ DOMAIN m_keys' = DOMAIN m_keys
            /\ \A i \in DOMAIN m_keys :
                  m_keys'[i] =
                     IF m_keys[i].usbOfficialUsageID =
                            elements[elementIndex + 1].usage.value
                        /\ m_keys[i].macCookieValue = 0
                     THEN [m_keys[i] EXCEPT !.macCookieValue =
                             CookieCast(elements[elementIndex + 1].cookie.value)]
                     ELSE m_keys[i]]_vars

\* after the scan of the descriptors of usages 4..43, the key with id 43 is
\* at index 43 with the handle reported for usage 43, and its neighbour 44
\* holds none
WitC32_UsageFortyThreeAtItsIndex ==
    /\ FindReturned
    /\ Size(m_keys) = 165
    /\ m_keys[43].usbOfficialUsageID = 43
    /\ m_keys[43].macCookieValue = CookieFor(43)
    /\ m_keys[44].macCookieValue = 0
    /\ Len(elements) = 40

(***************************************************************************)
(* Properties of the threshold, of the handles held and of the scan's      *)
(* result, stated of the whole session.                                    *)
(***************************************************************************)
\* Initialize has returned and its FindKeypressCookies got a report from
\* copyMatchingElements
ResolutionRan ==
    /\ phase = "live"
    /\ lastOp = "Initialize"
    /\ FirstOk(opCalls, "copyMatchingElements") # 0

\* C33: with at least 40 bound non-ignored keys, exactly 40 included,
\* FindKeypressCookies reports success.
CexC33_FortyIsEnough ==
    (ResolutionRan /\ Cardinality(ActiveIndices(m_keys)) >= 40) =>
        init.failedStage # "FindKeypressCookies"

\* the four driver handles of PrivateImpl: the call that acquires each and
\* the call that releases it
Handles ==
    {[acquire |-> "IOServiceGetMatchingService", release |-> "IOObjectRelease"],
     [acquire |-> "IOCreatePlugInInterfaceForService",
      release |-> "IODestroyPlugInInterface"],
     [acquire |-> "QueryInterface", release |-> "IOHIDDeviceInterface::Release"],
     [acquire |-> "allocQueue", release |-> "IOHIDQueueInterface::Release"]}

\* the driver has handed out the handle and has not got it back
Held(d, h) ==
    CASE h.acquire = "IOServiceGetMatchingService" -> d.deviceRefs > 0
      [] h.acquire = "IOCreatePlugInInterfaceForService" -> d.plugIn = "live"
      [] h.acquire = "QueryInterface" ->
            d.iface \in {"obtained", "open", "closed"}
      [] h.acquire = "allocQueue" ->
            d.queue \in {"Allocated", "Created", "Started"}

\* in the calls of one operation that starts with the driver at d, each
\* handle is acquired at most once and released at most once, and a
\* release is of a handle held at the start or acquired earlier in the
\* operation, never both
ReleasesJustified(d, calls) ==
    \A h \in Handles :
        /\ Times(calls, h.release) <= 1
        /\ Cardinality({k \in DOMAIN calls :
                           calls[k].fn = h.acquire /\ calls[k].ok}) <= 1
        /\ Held(d, h) => FirstOk(calls, h.acquire) = 0
        /\ Made(calls, h.release) =>
               \/ Held(d, h)
               \/ /\ FirstOk(calls, h.acquire) # 0
                  /\ FirstOk(calls, h.acquire) < FirstCall(calls, h.release)

\* C34: the constructor and the destructor release a handle at most once,
\* and only one that is held; polls and drains acquire and release
\* nothing; a session that dropped its PrivateImpl holds no handle, and
\* after the destructor the driver has every handle back.
ThmC34_EveryHandleReleasedOnce ==
    /\ [][(phase = "unborn" \/ phase' = "destroyed") =>
            ReleasesJustified(drv, opCalls')]_vars
    /\ [][(phase = "live" /\ phase' # "destroyed") => drv' = drv]_vars
    /\ []((phase = "live" /\ m_pimpl = NULL) =>
            \A h \in Handles : ~Held(drv, h))
    /\ [](phase = "destroyed" =>
            (m_pimpl = NULL /\ \A h \in Handles : ~Held(drv, h)))
    /\ [](drv.deviceRefs \in {0, 1})

\* the destructor of a session whose queue was allocated but could not be
\* created: the queue, the interface, the plug-in and the device were held
\* until now and have all been released
WitC34_DestroyedAfterQueueFailure ==
    /\ phase = "destroyed"
    /\ init.failedStage = "CreateQueue"
    /\ Times(opCalls, "IOHIDQueueInterface::Release") = 1
    /\ Times(opCalls, "IOHIDDeviceInterface::Release") = 1
    /\ Times(opCalls, "IODestroyPlugInInterface") = 1
    /\ Times(opCalls, "IOObjectRelease") = 1
    /\ \A h \in Handles : ~Held(drv, h)

\* the five basic stages of Initialize, lines 183-187
BasicStages ==
    {"FindKeyboard", "CreatePluginInterface", "CreateDeviceInterface",
     "PopulateVectorOfKeyInfo", "FindKeypressCookies"}

\* the session holds the device reference, the plug-in object and the open
\* device interface
HoldsDeviceResources ==
    /\ m_pimpl.allocated
    /\ m_pimpl.m_hidDevice # 0
    /\ m_pimpl.m_plugInInterface # 0
    /\ m_pimpl.m_hidDeviceInterface # 0
    /\ drv.deviceRefs = 1
    /\ drv.plugIn = "live"
    /\ drv.iface = "open"

\* C35: a session that came out of its constructor holds its device
\* resources exactly when none of the five basic stages failed, and holds
\* nothing otherwise; it holds a queue handle only if queueing was enabled
\* and the basic stages succeeded; and no poll, drain or key event changes
\* the handles it holds.
ThmC35_HandlesFollowBasicSuccess ==
    /\ [](phase = "live" =>
            /\ init.basicSuccess <=> init.failedStage \notin BasicStages
            /\ HoldsDeviceResources <=> init.basicSuccess
            /\ ~init.basicSuccess =>
                  (m_pimpl = NULL /\ \A h \in Handles : ~Held(drv, h))
            /\ m_pimpl.m_hidQueue # 0 =>
                  (m_queueEnabled /\ init.basicSuccess)
            /\ m_pimpl.m_hidQueue # 0 <=>
                  drv.queue \in {"Allocated", "Created", "Started"})
    /\ [][(phase = "live" /\ phase' = "live") =>
            (m_pimpl' = m_pimpl /\ drv' = drv)]_vars

\* a drain on a session that asked for the queue and was refused it at
\* allocQueue: the device resources are held, a queue handle is not
WitC35_NoQueueButDeviceHeld ==
    /\ DrainReturned
    /\ m_queueEnabled
    /\ init.failedStage = "CreateQueue"
    /\ HoldsDeviceResources
    /\ m_pimpl.m_hidQueue = 0
    /\ drv.queue = "Unallocated"

\* C36: the device interface is closed only if it had been opened: a close
\* issued by Initialize follows a successful open of the same run, and a
\* close issued by the destructor finds the interface open.
CexC36_CloseOnlyAfterOpen ==
    /\ [](lastOp = "Initialize" =>
            \A k \in DOMAIN opCalls :
                opCalls[k].fn = "close" =>
                    /\ FirstOk(opCalls, "open") # 0
                    /\ FirstOk(opCalls, "open") < k)
    /\ [][(phase' = "destroyed" /\ Made(opCalls', "close")) =>
            drv.iface = "open"]_vars

\* the descriptors of the scanned report that are well formed, of the
\* keyboard page, and carry usage code u
DescriptorsCarrying(u) ==
    {i \in 1..elementIndex :
        InRangeDescriptor(elements[i]) /\ elements[i].usage.value = u}

\* C37: when the scan has returned, a key holds a handle exactly when the
\* report had a well-formed keyboard-page descriptor with the key's usage
\* code, whatever the cookie of that descriptor (0 included).
CexC37_BoundWhateverTheCookie ==
    FindReturned =>
        \A u \in DOMAIN m_keys :
            (m_keys[u].macCookieValue # 0) <=> (DescriptorsCarrying(u) # {})
====
